---- MODULE Spec2Model ----
(***************************************************************************)
(* Verification model of the Dictionary (red-black tree map) of            *)
(* C-DataStructures, src/Dictionary.c.                                      *)
(*                                                                         *)
(* The heap of dict_Node structures is a function from addresses to node   *)
(* records.  The program compares node addresses for equality only, so a  *)
(* state keeps one representative of each heap up to renaming of           *)
(* addresses: after every operation the live nodes are renumbered          *)
(* 1..n in key order (Normalize).                                           *)
(*                                                                         *)
(* The second part of the module runs the public operations of the map as  *)
(* threads that take their steps one at a time, through the               *)
(* ReadWriteSync of src/tools/Synchronize.c (SpecSync).                    *)
(*                                                                         *)
(* The third part models the Vector of src/Vector.c, which the iterators   *)
(* of the map use as their stack, and the HashTable of src/HashTable.c.    *)
(***************************************************************************)
EXTENDS Integers, Sequences, FiniteSets, TLC

\* ------------------------------------------------------------------ bounds
\* Keys and values of the map whose values are observed (Spec).
MaxKey == 5
MaxVal == 2
\* Keys of the map whose shape is explored more deeply (SpecDeep).
MaxDeepKey == 10

Keys == 1..MaxKey
Values == 1..MaxVal
DeepKeys == 1..MaxDeepKey
\* Threads that call the map at the same time and the keys they use.  No
\* thread starts a call while a counter of the ReadWriteSync is further than
\* MaxCount from the number of acquisitions it should count, and none starts a
\* dict_put while the size of the map is MaxSyncSize or more.
MaxThread == 2
MaxSyncKey == 1
MaxCount == 1
MaxSyncSize == 2
\* Keys of the map whose dict_put runs its search and its insertion as two
\* steps (SpecRace); the reads and the writes of the key MaxRaceKey are followed.
MaxRaceKey == 2
\* The largest size the Vector is pushed to, more than its initial
\* capacity, and the number of elements there are to push onto a Vector of a
\* given size: the elements for one size are none of those for another, so
\* every element of the Vector tells the place it was pushed to (SpecVector).
MaxVectSize == 12
MaxVectVal == 1
VectValues(n) == {n * MaxVectVal + v : v \in 1..MaxVectVal}
\* Keys and values of the HashTable, and the number of hash codes the keys
\* have between them: keys MaxTableHash apart have one hash code (SpecTable).
MaxTableKey == 4
MaxTableVal == 2
MaxTableHash == 2
\* puts are made while the table counts fewer mappings than this; the count
\* passes the load the first array is designed for (12 of 16)
MaxTableSize == 13
TableKeys == 1..MaxTableKey
TableValues == 1..MaxTableVal
Threads == 1..MaxThread
SyncKeys == 1..MaxSyncKey
RaceKeys == 1..MaxRaceKey
Watched == {MaxRaceKey}

\* ------------------------------------------------------------ C constants
NULL == 0
RED == FALSE
BLACK == TRUE
LEFT == FALSE
RIGHT == TRUE
SYNC_SEMAPHORE_MAX == 1
\* DEFAULT_INITIAL_CAPACITY and VECTOR_GROW_AMOUNT of src/Vector.c
VECT_DEFAULT_INITIAL_CAPACITY == 10
VECTOR_GROW_AMOUNT == 2
\* DEFAULT_INITIAL_CAPACITY, LOAD_FACTOR (0.75f, in hundredths) and GROW_FACTOR
\* of src/HashTable.c
TABLE_DEFAULT_INITIAL_CAPACITY == 16
LOAD_FACTOR == 75
GROW_FACTOR == 2

VARIABLES
    nodes,  \* the heap: address -> dict_Node
    root,   \* dict->root
    size,   \* dict->size
    fault,  \* "none", or the assertion / null dereference that stopped the program
    abs     \* the key -> value map that the calls made so far describe

VARIABLES
    rw,      \* dict->rw_sync: the ReadWriteSync structure of the map
    objects, \* the mutexes and semaphores the process created: handle -> state
    pc,      \* thread -> the steps the thread has still to take in its call
    reg,     \* thread -> the local variable its next step reads
    op,      \* thread -> the call the thread is in
    returned,\* thread -> the body its call has run and what the body returned
    held,    \* thread -> its sync_*_start calls that returned, not yet ended
    ahead,   \* thread -> the threads that were in their critical section when
             \*           the thread asked for the lock, and still are
    known    \* key -> the value the last finished write of the key left, when
             \*        no other write of the key ran beside it

VARIABLES
    vect,    \* a Vector: table, start, end, size, capacity
    pushed,  \* the elements pushed to the front of vect and not popped, last first
    table,   \* a HashTable: buckets, capacity, size
    iters    \* thread -> the dict_Iterator of the dict_clone the thread is in

syncvars == <<rw, objects, pc, reg, op, returned, held, ahead, known>>
dictvars == <<nodes, root, size, fault, abs>>
containers == <<vect, pushed, table, iters>>
vars == <<nodes, root, size, fault, abs,
          rw, objects, pc, reg, op, returned, held, ahead, known,
          vect, pushed, table, iters>>

\* --------------------------------------------------------------- navigation
Parent(h, node) == h[node].parent
IsRoot(h, node) == Parent(h, node) = NULL
Leaf(h, node) == h[node].left = NULL /\ h[node].right = NULL
Direction(h, child, parent) == IF h[parent].left = child THEN LEFT ELSE RIGHT
Child(h, node, direction) == IF direction = LEFT THEN h[node].left ELSE h[node].right
Color(h, node) == IF node = NULL \/ h[node].color = BLACK THEN BLACK ELSE RED

SetChild(h, node, direction, c) ==
    IF direction = LEFT THEN [h EXCEPT ![node].left = c]
                        ELSE [h EXCEPT ![node].right = c]
SetColor(h, node, c) == [h EXCEPT ![node].color = c]

\* the user comparator on the keys of the model: integers in their usual order
Compare(a, b) == IF a < b THEN -1 ELSE IF a > b THEN 1 ELSE 0

\* the Dictionary under operation: heap, root, size, fault and return value;
\* log lists the cases the fixups applied, trace the calls of dict_double_black
\* and dict_delete with what they were given
Dict(h, r, s) ==
    [h |-> h, root |-> r, size |-> s, fault |-> "none", ret |-> NULL, log |-> <<>>,
     trace |-> <<>>]
Logged(d, what) == [d EXCEPT !.log = Append(@, what)]
Traced(d, call) == [d EXCEPT !.trace = Append(@, call)]
Faulted(d, what) == [d EXCEPT !.fault = IF d.fault = "none" THEN what ELSE d.fault]

\* mem_calloc of a node: a fresh address, every field zero (RED, no links)
NewAddress(h) == CHOOSE a \in 1..(Cardinality(DOMAIN h) + 1) : a \notin DOMAIN h

dict_Node_new(key, value) ==
    [key |-> key, value |-> value, left |-> NULL, right |-> NULL,
     parent |-> NULL, color |-> RED]

\* mem_free of a node: its address leaves the heap
dict_Node_destroy(h, node) == [a \in DOMAIN h \ {node} |-> h[a]]

dict_assign_child(h, parent, child, direction) ==
    LET h1 == IF parent # NULL THEN SetChild(h, parent, direction, child) ELSE h
    IN  IF child # NULL THEN [h1 EXCEPT ![child].parent = parent] ELSE h1

dict_sibling(h, child) == Child(h, Parent(h, child), ~Direction(h, child, Parent(h, child)))
dict_uncle(h, child) == dict_sibling(h, Parent(h, child))

\* ------------------------------------------------------------------ search
RECURSIVE SearchFrom(_, _, _)
SearchFrom(h, current, key) ==
    LET compared == IF key = h[current].key THEN 0 ELSE Compare(key, h[current].key)
    IN  IF compared < 0 /\ h[current].left # NULL THEN SearchFrom(h, h[current].left, key)
        ELSE IF compared > 0 /\ h[current].right # NULL THEN SearchFrom(h, h[current].right, key)
        ELSE [node |-> current, compared |-> compared]

\* dict_binary_search that goes down while the key differs, and so leaves the
\* tree when the key is not in it
RECURSIVE SearchOut(_, _, _)
SearchOut(h, current, key) ==
    IF current = NULL THEN [node |-> NULL, compared |-> 0]
    ELSE LET compared == Compare(key, h[current].key)
         IN  IF compared < 0 THEN SearchOut(h, h[current].left, key)
             ELSE IF compared > 0 THEN SearchOut(h, h[current].right, key)
             ELSE [node |-> current, compared |-> 0]
dict_binary_search_exact(d, key) == SearchOut(d.h, d.root, key)

dict_binary_search(d, key) ==
    IF d.root = NULL THEN [node |-> NULL, compared |-> 0]
    ELSE SearchFrom(d.h, d.root, key)

RECURSIVE dict_successor_from(_, _)
dict_successor_from(h, successor) ==
    IF h[successor].left # NULL THEN dict_successor_from(h, h[successor].left) ELSE successor
\* dict_successor without the walk down the left links
dict_successor_right_child(h, node) == h[node].right

dict_successor(h, node) == dict_successor_from(h, h[node].right)

\* ---------------------------------------------------------------- rotation
\* dict_rotate that makes the child the root without clearing its parent link
dict_rotate_stale_parent(d, child, parent) ==
    LET grandparent == Parent(d.h, parent)
        h1 == IF grandparent # NULL
              THEN dict_assign_child(d.h, grandparent, child, Direction(d.h, parent, grandparent))
              ELSE d.h
        r1 == IF grandparent # NULL THEN d.root ELSE child
        rotate_dir == Direction(h1, child, parent)
        h2 == dict_assign_child(h1, parent, Child(h1, child, ~rotate_dir), rotate_dir)
        h3 == dict_assign_child(h2, child, parent, ~rotate_dir)
    IN  [d EXCEPT !.h = h3, !.root = r1]

dict_rotate(d, child, parent) ==
    LET grandparent == Parent(d.h, parent)
        h1 == IF grandparent # NULL
              THEN dict_assign_child(d.h, grandparent, child, Direction(d.h, parent, grandparent))
              ELSE [d.h EXCEPT ![child].parent = NULL]
        r1 == IF grandparent # NULL THEN d.root ELSE child
        rotate_dir == Direction(h1, child, parent)
        h2 == dict_assign_child(h1, parent, Child(h1, child, ~rotate_dir), rotate_dir)
        h3 == dict_assign_child(h2, child, parent, ~rotate_dir)
    IN  [d EXCEPT !.h = h3, !.root = r1]

\* ------------------------------------------------------------- red-red fixup
\* dict_red_red that goes on from the parent after its rotations, before the
\* parent is made BLACK
RECURSIVE dict_red_red_climbs(_, _)
dict_red_red_climbs(d, child) ==
    IF d.fault # "none" THEN d
    ELSE IF IsRoot(d.h, child) THEN Faulted(d, "red_red: root")
    ELSE IF Color(d.h, child) # RED \/ Color(d.h, Parent(d.h, child)) # RED THEN d
    ELSE IF IsRoot(d.h, Parent(d.h, child)) THEN Faulted(d, "sibling: no parent")
    ELSE
    LET parent == Parent(d.h, child)
        gparent == Parent(d.h, parent)
        uncle == dict_uncle(d.h, child)
    IN  IF Color(d.h, uncle) = RED
        THEN LET d1 == Logged([d EXCEPT !.h = SetColor(@, uncle, BLACK)], "rr1")
                 d2 == IF ~IsRoot(d1.h, gparent)
                       THEN dict_red_red_climbs([d1 EXCEPT !.h = SetColor(@, gparent, RED)],
                                                gparent)
                       ELSE d1
             IN  [d2 EXCEPT !.h = SetColor(@, parent, BLACK)]
        ELSE LET angle == Direction(d.h, child, parent) # Direction(d.h, parent, gparent)
                 d1 == IF angle THEN Logged(dict_rotate(d, child, parent), "rr2") ELSE d
                 parent1 == IF angle THEN child ELSE parent
                 d2 == Logged(dict_rotate(d1, parent1, gparent), "rr3")
                 d3 == [d2 EXCEPT !.h = SetColor(@, gparent, RED)]
                 d4 == IF ~IsRoot(d3.h, parent1) THEN dict_red_red_climbs(d3, parent1) ELSE d3
             IN  [d4 EXCEPT !.h = SetColor(@, parent1, BLACK)]

RECURSIVE dict_red_red(_, _)
dict_red_red(d, child) ==
    IF d.fault # "none" THEN d
    ELSE IF IsRoot(d.h, child) THEN Faulted(d, "red_red: root")
    ELSE IF Color(d.h, child) # RED \/ Color(d.h, Parent(d.h, child)) # RED THEN d
    ELSE IF IsRoot(d.h, Parent(d.h, child)) THEN Faulted(d, "sibling: no parent")
    ELSE
    LET parent == Parent(d.h, child)
        gparent == Parent(d.h, parent)
        uncle == dict_uncle(d.h, child)
    IN  IF Color(d.h, uncle) = RED
        THEN \* Case One: the uncle is RED, re-colour and traverse upwards
             LET d1 == Logged([d EXCEPT !.h = SetColor(@, uncle, BLACK)], "rr1")
                 d2 == IF ~IsRoot(d1.h, gparent)
                       THEN dict_red_red([d1 EXCEPT !.h = SetColor(@, gparent, RED)], gparent)
                       ELSE d1
             IN  [d2 EXCEPT !.h = SetColor(@, parent, BLACK)]
        ELSE \* Case Two: angle orientation; Case Three: line orientation
             LET angle == Direction(d.h, child, parent) # Direction(d.h, parent, gparent)
                 d1 == IF angle THEN Logged(dict_rotate(d, child, parent), "rr2") ELSE d
                 parent1 == IF angle THEN child ELSE parent
                 d2 == Logged(dict_rotate(d1, parent1, gparent), "rr3")
                 d3 == [d2 EXCEPT !.h = SetColor(@, gparent, RED)]
             IN  [d3 EXCEPT !.h = SetColor(@, parent1, BLACK)]

\* -------------------------------------------------------- double-black fixup
\* dict_double_black whose Case Five re-colours without its rotation
RECURSIVE dict_double_black_unrotated(_, _)
dict_double_black_unrotated(d, double_black) ==
    IF d.fault # "none" THEN d
    ELSE IF IsRoot(d.h, double_black) THEN Faulted(d, "double_black: root")
    ELSE IF dict_sibling(d.h, double_black) = NULL THEN Faulted(d, "double_black: no sibling")
    ELSE
    LET h == d.h
        parent == Parent(h, double_black)
        sibling == dict_sibling(h, double_black)
        direction == Direction(h, double_black, parent)
        nephew_close == Child(h, sibling, direction)
        nephew_far == Child(h, sibling, ~direction)
        color_par == Color(h, parent)
        color_sib == Color(h, sibling)
        color_nc == Color(h, nephew_close)
        color_nf == Color(h, nephew_far)
        d0 == Traced(d, [function |-> "dict_double_black", node |-> double_black,
                         sibling |-> sibling, nephew_far |-> nephew_far,
                         color_par |-> color_par, color_sib |-> color_sib,
                         color_nc |-> color_nc, color_nf |-> color_nf])
    IN  IF color_par = BLACK /\ color_sib = RED /\ color_nc = BLACK /\ color_nf = BLACK
        THEN LET d1 == Logged(dict_rotate(d0, sibling, parent), "db2")
                 d2 == [d1 EXCEPT !.h = SetColor(SetColor(@, parent, RED), sibling, BLACK)]
             IN  dict_double_black_unrotated(d2, double_black)
        ELSE IF color_par = BLACK /\ color_sib = BLACK /\ color_nc = BLACK /\ color_nf = BLACK
        THEN LET d1 == Logged([d0 EXCEPT !.h = SetColor(@, sibling, RED)], "db3")
             IN  IF ~IsRoot(d1.h, parent) THEN dict_double_black_unrotated(d1, parent) ELSE d1
        ELSE IF color_par = RED /\ color_sib = BLACK /\ color_nc = BLACK /\ color_nf = BLACK
        THEN Logged([d0 EXCEPT !.h = SetColor(SetColor(@, parent, BLACK), sibling, RED)], "db4")
        ELSE IF color_nc = RED /\ color_nf = BLACK
        THEN LET d1 == Logged(d0, "db5")
                 d2 == [d1 EXCEPT !.h = SetColor(SetColor(@, nephew_close, BLACK), sibling, RED)]
             IN  dict_double_black_unrotated(d2, double_black)
        ELSE IF nephew_far = NULL THEN Faulted(d0, "double_black: no far nephew")
             ELSE
             LET d1 == Logged(dict_rotate(d0, sibling, parent), "db6")
                 d2 == [d1 EXCEPT !.h = SetColor(@, sibling,
                            IF ~IsRoot(d1.h, sibling) THEN color_par ELSE BLACK)]
             IN  [d2 EXCEPT !.h = SetColor(SetColor(@, nephew_far, BLACK), parent, BLACK)]

RECURSIVE dict_double_black(_, _)
dict_double_black(d, double_black) ==
    IF d.fault # "none" THEN d
    ELSE IF IsRoot(d.h, double_black) THEN Faulted(d, "double_black: root")
    ELSE IF dict_sibling(d.h, double_black) = NULL THEN Faulted(d, "double_black: no sibling")
    ELSE
    LET h == d.h
        parent == Parent(h, double_black)
        sibling == dict_sibling(h, double_black)
        direction == Direction(h, double_black, parent)
        nephew_close == Child(h, sibling, direction)
        nephew_far == Child(h, sibling, ~direction)
        color_par == Color(h, parent)
        color_sib == Color(h, sibling)
        color_nc == Color(h, nephew_close)
        color_nf == Color(h, nephew_far)
        d0 == Traced(d, [function |-> "dict_double_black", node |-> double_black,
                         sibling |-> sibling, nephew_far |-> nephew_far,
                         color_par |-> color_par, color_sib |-> color_sib,
                         color_nc |-> color_nc, color_nf |-> color_nf])
    IN  IF color_par = BLACK /\ color_sib = RED /\ color_nc = BLACK /\ color_nf = BLACK
        THEN \* Case Two: rotate sibling around parent and re-colour
             LET d1 == Logged(dict_rotate(d0, sibling, parent), "db2")
                 d2 == [d1 EXCEPT !.h = SetColor(SetColor(@, parent, RED), sibling, BLACK)]
             IN  dict_double_black(d2, double_black)
        ELSE IF color_par = BLACK /\ color_sib = BLACK /\ color_nc = BLACK /\ color_nf = BLACK
        THEN \* Case Three: re-colour and bubble the problem upwards
             LET d1 == Logged([d0 EXCEPT !.h = SetColor(@, sibling, RED)], "db3")
             IN  IF ~IsRoot(d1.h, parent) THEN dict_double_black(d1, parent) ELSE d1
        ELSE IF color_par = RED /\ color_sib = BLACK /\ color_nc = BLACK /\ color_nf = BLACK
        THEN \* Case Four: re-colour parent and sibling
             Logged([d0 EXCEPT !.h = SetColor(SetColor(@, parent, BLACK), sibling, RED)], "db4")
        ELSE IF color_nc = RED /\ color_nf = BLACK
        THEN \* Case Five: rotate close nephew around sibling and re-colour
             LET d1 == Logged(dict_rotate(d0, nephew_close, sibling), "db5")
                 d2 == [d1 EXCEPT !.h = SetColor(SetColor(@, nephew_close, BLACK), sibling, RED)]
             IN  dict_double_black(d2, double_black)
        ELSE \* Case Six: rotate sibling around parent and re-colour
             IF nephew_far = NULL THEN Faulted(d0, "double_black: no far nephew")
             ELSE
             LET d1 == Logged(dict_rotate(d0, sibling, parent), "db6")
                 d2 == [d1 EXCEPT !.h = SetColor(@, sibling,
                            IF ~IsRoot(d1.h, sibling) THEN color_par ELSE BLACK)]
             IN  [d2 EXCEPT !.h = SetColor(SetColor(@, nephew_far, BLACK), parent, BLACK)]

\* ------------------------------------------------------------------- delete
\* dict_delete without the re-colouring of a surviving child that becomes the root
dict_delete_uncoloured(d, node) ==
    LET h == d.h
        parent == Parent(h, node)
        surviving_child == Child(h, node, IF h[node].left # NULL THEN LEFT ELSE RIGHT)
        h1 == IF parent = NULL
              THEN IF surviving_child # NULL
                   THEN [h EXCEPT ![surviving_child].parent = NULL]
                   ELSE h
              ELSE dict_assign_child(h, parent, surviving_child, Direction(h, node, parent))
        r1 == IF parent = NULL THEN surviving_child ELSE d.root
    IN  [d EXCEPT !.h = dict_Node_destroy(h1, node), !.root = r1]

\* the node is the root of the map or a child of the node it names as its parent
Linked(d, node) ==
    IF Parent(d.h, node) = NULL THEN d.root = node
    ELSE node \in {d.h[Parent(d.h, node)].left, d.h[Parent(d.h, node)].right}

dict_delete(d, node) ==
    IF d.fault # "none" THEN d
    ELSE IF d.h[node].left # NULL /\ d.h[node].right # NULL
    THEN Faulted(d, "delete: two children")
    ELSE
    LET h == d.h
        parent == Parent(h, node)
        surviving_child == Child(h, node, IF h[node].left # NULL THEN LEFT ELSE RIGHT)
        d0 == Traced(d, [function |-> "dict_delete", node |-> node,
                         linked |-> Linked(d, node)])
        h1 == IF parent = NULL
              THEN IF surviving_child # NULL
                   THEN [h EXCEPT ![surviving_child].color = BLACK,
                                  ![surviving_child].parent = NULL]
                   ELSE h
              ELSE dict_assign_child(h, parent, surviving_child, Direction(h, node, parent))
        r1 == IF parent = NULL THEN surviving_child ELSE d.root
    IN  [d0 EXCEPT !.h = dict_Node_destroy(h1, node), !.root = r1]

\* ---------------------------------------------------------------- accessors
\* dict_get without the test of `compared`
dict_get_nearest(d, key) ==
    LET s == dict_binary_search(d, key)
    IN  IF s.node # NULL THEN d.h[s.node].value ELSE NULL

dict_get(d, key) ==
    LET s == dict_binary_search(d, key)
    IN  IF s.node # NULL /\ s.compared = 0 THEN d.h[s.node].value ELSE NULL

dict_contains(d, key) ==
    LET s == dict_binary_search(d, key)
    IN  s.node # NULL /\ s.compared = 0

dict_size(d) == d.size
dict_empty(d) == d.size = 0

\* ----------------------------------------------------------------- mutators
\* dict_put without the red-red fixup
dict_put_unfixed(d, key, value) ==
    LET s == dict_binary_search(d, key)
        located == s.node
    IN  IF located = NULL \/ s.compared # 0
        THEN LET node == NewAddress(d.h)
                 h0 == (node :> dict_Node_new(key, value)) @@ d.h
                 d1 == IF located = NULL
                       THEN [d EXCEPT !.h = SetColor(h0, node, BLACK), !.root = node]
                       ELSE [d EXCEPT !.h = dict_assign_child(h0, located, node, s.compared > 0)]
             IN  [d1 EXCEPT !.size = @ + 1, !.ret = NULL]
        ELSE [d EXCEPT !.h[located].value = value, !.ret = d.h[located].value]

\* dict_put with size++ after the if, so that an overwrite counts as well
dict_put_counts_overwrite(d, key, value) ==
    LET s == dict_binary_search(d, key)
        located == s.node
    IN  IF located = NULL \/ s.compared # 0
        THEN LET node == NewAddress(d.h)
                 h0 == (node :> dict_Node_new(key, value)) @@ d.h
                 d1 == IF located = NULL
                       THEN [d EXCEPT !.h = SetColor(h0, node, BLACK), !.root = node]
                       ELSE dict_red_red(
                                [d EXCEPT !.h = dict_assign_child(h0, located, node, s.compared > 0)],
                                node)
             IN  [d1 EXCEPT !.size = @ + 1, !.ret = NULL]
        ELSE [d EXCEPT !.h[located].value = value, !.ret = d.h[located].value,
                       !.size = @ + 1]

\* dict_put after its search: s is what dict_binary_search returned
dict_put_located(d, key, value, s) ==
    LET located == s.node
    IN  IF located = NULL \/ s.compared # 0
        THEN LET node == NewAddress(d.h)
                 h0 == (node :> dict_Node_new(key, value)) @@ d.h
                 d1 == IF located = NULL
                       THEN [d EXCEPT !.h = SetColor(h0, node, BLACK), !.root = node]
                       ELSE dict_red_red(
                                [d EXCEPT !.h = dict_assign_child(h0, located, node, s.compared > 0)],
                                node)
             IN  [d1 EXCEPT !.size = @ + 1, !.ret = NULL]
        ELSE [d EXCEPT !.h[located].value = value, !.ret = d.h[located].value]

dict_put(d, key, value) == dict_put_located(d, key, value, dict_binary_search(d, key))

\* dict_remove without the double-black fixup
dict_remove_unfixed(d, key) ==
    LET s == dict_binary_search(d, key)
    IN  IF s.node # NULL /\ s.compared = 0
        THEN LET two == d.h[s.node].left # NULL /\ d.h[s.node].right # NULL
                 successor == dict_successor(d.h, s.node)
                 h1 == IF two
                       THEN [d.h EXCEPT ![s.node].key = d.h[successor].key,
                                        ![s.node].value = d.h[successor].value]
                       ELSE d.h
                 located == IF two THEN successor ELSE s.node
                 d2 == [d EXCEPT !.h = h1]
                 removed == d2.h[located].value
                 d3 == dict_delete(d2, located)
             IN  [d3 EXCEPT !.size = @ - 1, !.ret = removed]
        ELSE [d EXCEPT !.ret = NULL]

\* dict_remove that copies the successor's key but not its value
dict_remove_keeps_value(d, key) ==
    LET s == dict_binary_search(d, key)
    IN  IF s.node # NULL /\ s.compared = 0
        THEN LET two == d.h[s.node].left # NULL /\ d.h[s.node].right # NULL
                 successor == dict_successor(d.h, s.node)
                 h1 == IF two
                       THEN [d.h EXCEPT ![s.node].key = d.h[successor].key]
                       ELSE d.h
                 located == IF two THEN successor ELSE s.node
                 d1 == [d EXCEPT !.h = h1]
                 d2 == IF Color(h1, located) = BLACK /\ ~IsRoot(h1, located)
                       THEN dict_double_black(d1, located)
                       ELSE d1
                 removed == d2.h[located].value
                 d3 == dict_delete(d2, located)
             IN  [d3 EXCEPT !.size = @ - 1, !.ret = removed]
        ELSE [d EXCEPT !.ret = NULL]

\* dict_remove without the test of `compared`: it deletes the node the search
\* ended at
dict_remove_nearest(d, key) ==
    LET s == dict_binary_search(d, key)
    IN  IF s.node # NULL
        THEN LET two == d.h[s.node].left # NULL /\ d.h[s.node].right # NULL
                 successor == dict_successor(d.h, s.node)
                 h1 == IF two
                       THEN [d.h EXCEPT ![s.node].key = d.h[successor].key,
                                        ![s.node].value = d.h[successor].value]
                       ELSE d.h
                 located == IF two THEN successor ELSE s.node
                 d1 == [d EXCEPT !.h = h1]
                 d2 == IF Color(h1, located) = BLACK /\ ~IsRoot(h1, located)
                       THEN dict_double_black(d1, located)
                       ELSE d1
                 removed == d2.h[located].value
                 d3 == dict_delete(d2, located)
             IN  [d3 EXCEPT !.size = @ - 1, !.ret = removed]
        ELSE [d EXCEPT !.ret = NULL]

\* dict_remove without the test of !ROOT(located) before the fixup
dict_remove_fixes_root(d, key) ==
    LET s == dict_binary_search(d, key)
    IN  IF s.node # NULL /\ s.compared = 0
        THEN LET two == d.h[s.node].left # NULL /\ d.h[s.node].right # NULL
                 successor == dict_successor(d.h, s.node)
                 h1 == IF two
                       THEN [d.h EXCEPT ![s.node].key = d.h[successor].key,
                                        ![s.node].value = d.h[successor].value]
                       ELSE d.h
                 located == IF two THEN successor ELSE s.node
                 d1 == [d EXCEPT !.h = h1]
                 d2 == IF Color(h1, located) = BLACK
                       THEN dict_double_black(d1, located)
                       ELSE d1
                 removed == d2.h[located].value
                 d3 == dict_delete(d2, located)
             IN  [d3 EXCEPT !.size = @ - 1, !.ret = removed]
        ELSE [d EXCEPT !.ret = NULL]

\* dict_remove that deletes the node it found, two children or not
dict_remove_no_successor(d, key) ==
    LET s == dict_binary_search(d, key)
    IN  IF s.node # NULL /\ s.compared = 0
        THEN LET located == s.node
                 d2 == IF Color(d.h, located) = BLACK /\ ~IsRoot(d.h, located)
                       THEN dict_double_black(d, located)
                       ELSE d
                 removed == d2.h[located].value
                 d3 == dict_delete(d2, located)
             IN  [d3 EXCEPT !.size = @ - 1, !.ret = removed]
        ELSE [d EXCEPT !.ret = NULL]

dict_remove(d, key) ==
    LET s == dict_binary_search(d, key)
    IN  IF s.node # NULL /\ s.compared = 0
        THEN LET two == d.h[s.node].left # NULL /\ d.h[s.node].right # NULL
                 successor == dict_successor(d.h, s.node)
                 \* two children: the in-order successor is deleted instead
                 h1 == IF two
                       THEN [d.h EXCEPT ![s.node].key = d.h[successor].key,
                                        ![s.node].value = d.h[successor].value]
                       ELSE d.h
                 located == IF two THEN successor ELSE s.node
                 d1 == [d EXCEPT !.h = h1]
                 d2 == IF Color(h1, located) = BLACK /\ ~IsRoot(h1, located)
                       THEN dict_double_black(d1, located)
                       ELSE d1
                 removed == d2.h[located].value
                 d3 == dict_delete(d2, located)
             IN  [d3 EXCEPT !.size = @ - 1, !.ret = removed]
        ELSE [d EXCEPT !.ret = NULL]

\* ----------------------------------------------------------------- iterator
\* The iterator's stack is a Vector used through its front: a sequence whose
\* head is the front element.
vect_push_front(stack, element) == <<element>> \o stack
vect_pop_front(stack) == Tail(stack)
vect_front(stack) == Head(stack)
vect_empty(stack) == stack = <<>>

IN_ORDER == "IN_ORDER"
PRE_ORDER == "PRE_ORDER"
POST_ORDER == "POST_ORDER"

\* dict_iter that leaves the cursor unset for every traversal
dict_iter_no_cursor(d, traverse_type) ==
    IF ~dict_empty(d)
    THEN [current |-> NULL, stack |-> vect_push_front(<<>>, d.root)]
    ELSE [current |-> NULL, stack |-> <<>>]

dict_iter(d, traverse_type) ==
    IF ~dict_empty(d)
    THEN [current |-> IF traverse_type # PRE_ORDER THEN d.root ELSE NULL,
          stack |-> vect_push_front(<<>>, d.root)]
    ELSE [current |-> NULL, stack |-> <<>>]

dict_iter_has_next(iter) == ~vect_empty(iter.stack)

\* the rightmost node below the left child of next, NULL without a left child
RECURSIVE dict_iter_predecessor_from(_, _)
dict_iter_predecessor_from(h, successor) ==
    IF successor # NULL /\ h[successor].right # NULL
    THEN dict_iter_predecessor_from(h, h[successor].right)
    ELSE successor

\* one turn of the loop of dict_iter_in_order; node is `iterated`, NULL when
\* the loop goes on
dict_iter_in_order_pass(h, iter) ==
    LET next == vect_front(iter.stack)
        s0 == vect_pop_front(iter.stack)
        successor == dict_iter_predecessor_from(h, h[next].left)
        s1 == IF successor # iter.current /\ h[next].right # NULL
              THEN vect_push_front(s0, h[next].right) ELSE s0
    IN  IF successor = NULL \/ successor = iter.current
        THEN [iter |-> [current |-> next, stack |-> s1], node |-> next]
        ELSE LET s2 == vect_push_front(s1, next)
                 s3 == IF h[next].left # NULL
                       THEN vect_push_front(s2, h[next].left) ELSE s2
             IN  [iter |-> [iter EXCEPT !.stack = s3], node |-> NULL]

RECURSIVE dict_iter_in_order(_, _)
dict_iter_in_order(h, iter) ==
    LET pass == dict_iter_in_order_pass(h, iter)
    IN  IF pass.node # NULL THEN pass ELSE dict_iter_in_order(h, pass.iter)

\* dict_iter_pre_order that pushes the left child below the right child
dict_iter_pre_order_swapped(h, iter) ==
    LET iterated == vect_front(iter.stack)
        s0 == vect_pop_front(iter.stack)
        s1 == IF h[iterated].left # NULL
              THEN vect_push_front(s0, h[iterated].left) ELSE s0
        s2 == IF h[iterated].right # NULL
              THEN vect_push_front(s1, h[iterated].right) ELSE s1
    IN  [iter |-> [iter EXCEPT !.stack = s2], node |-> iterated]

dict_iter_pre_order(h, iter) ==
    LET iterated == vect_front(iter.stack)
        s0 == vect_pop_front(iter.stack)
        s1 == IF h[iterated].right # NULL
              THEN vect_push_front(s0, h[iterated].right) ELSE s0
        s2 == IF h[iterated].left # NULL
              THEN vect_push_front(s1, h[iterated].left) ELSE s1
    IN  [iter |-> [iter EXCEPT !.stack = s2], node |-> iterated]

\* dict_iter_post_order that pushes the left child below the right child
RECURSIVE dict_iter_post_order_swapped(_, _)
dict_iter_post_order_swapped(h, iter) ==
    LET next == vect_front(iter.stack)
    IN  IF Leaf(h, next) \/ h[next].left = iter.current \/ h[next].right = iter.current
        THEN [iter |-> [current |-> next, stack |-> vect_pop_front(iter.stack)],
              node |-> next]
        ELSE LET s1 == IF h[next].left # NULL
                       THEN vect_push_front(iter.stack, h[next].left) ELSE iter.stack
                 s2 == IF h[next].right # NULL
                       THEN vect_push_front(s1, h[next].right) ELSE s1
             IN  dict_iter_post_order_swapped(h, [iter EXCEPT !.stack = s2])

\* one turn of the loop of dict_iter_post_order without the comparison of the
\* children with iter->current: only a leaf is returned
dict_iter_post_order_pass_leaf_only(h, iter) ==
    LET next == vect_front(iter.stack)
    IN  IF Leaf(h, next)
        THEN [iter |-> [current |-> next, stack |-> vect_pop_front(iter.stack)],
              node |-> next]
        ELSE LET s1 == IF h[next].right # NULL
                       THEN vect_push_front(iter.stack, h[next].right) ELSE iter.stack
                 s2 == IF h[next].left # NULL
                       THEN vect_push_front(s1, h[next].left) ELSE s1
             IN  [iter |-> [iter EXCEPT !.stack = s2], node |-> NULL]

\* one turn of the loop of dict_iter_post_order; node is `iterated`, NULL when
\* the loop goes on
dict_iter_post_order_pass(h, iter) ==
    LET next == vect_front(iter.stack)
    IN  IF Leaf(h, next) \/ h[next].left = iter.current \/ h[next].right = iter.current
        THEN [iter |-> [current |-> next, stack |-> vect_pop_front(iter.stack)],
              node |-> next]
        ELSE LET s1 == IF h[next].right # NULL
                       THEN vect_push_front(iter.stack, h[next].right) ELSE iter.stack
                 s2 == IF h[next].left # NULL
                       THEN vect_push_front(s1, h[next].left) ELSE s1
             IN  [iter |-> [iter EXCEPT !.stack = s2], node |-> NULL]

RECURSIVE dict_iter_post_order(_, _)
dict_iter_post_order(h, iter) ==
    LET pass == dict_iter_post_order_pass(h, iter)
    IN  IF pass.node # NULL THEN pass ELSE dict_iter_post_order(h, pass.iter)

\* iter->next, the step function dict_iter chose for the traversal type
dict_iter_next_node(h, iter, traverse_type) ==
    IF traverse_type = IN_ORDER THEN dict_iter_in_order(h, iter)
    ELSE IF traverse_type = PRE_ORDER THEN dict_iter_pre_order(h, iter)
    ELSE dict_iter_post_order(h, iter)

\* one turn of the loop of iter->next; dict_iter_pre_order has no loop
dict_iter_pass(h, iter, traverse_type) ==
    IF traverse_type = IN_ORDER THEN dict_iter_in_order_pass(h, iter)
    ELSE IF traverse_type = PRE_ORDER THEN dict_iter_pre_order(h, iter)
    ELSE dict_iter_post_order_pass(h, iter)

\* dict_iter_next_node as far as `turns` turns of the loop of iter->next take
\* it: node is NULL when the loop has not returned by then
RECURSIVE dict_iter_next_within(_, _, _, _)
dict_iter_next_within(h, iter, traverse_type, turns) ==
    IF turns = 0 THEN [iter |-> iter, node |-> NULL]
    ELSE LET pass == dict_iter_pass(h, iter, traverse_type)
         IN  IF pass.node # NULL THEN pass
             ELSE dict_iter_next_within(h, pass.iter, traverse_type, turns - 1)

\* The nodes a caller receives who calls dict_iter_next while
\* dict_iter_has_next holds, in the order of the calls.
RECURSIVE dict_iter_drain(_, _, _)
dict_iter_drain(h, iter, traverse_type) ==
    IF ~dict_iter_has_next(iter) THEN <<>>
    ELSE LET step == dict_iter_next_node(h, iter, traverse_type)
         IN  <<step.node>> \o dict_iter_drain(h, step.iter, traverse_type)

dict_iter_all(d, traverse_type) ==
    dict_iter_drain(d.h, dict_iter(d, traverse_type), traverse_type)

\* The loop of dict_clear without the cut of the child from its parent: the
\* parent keeps the address of the destroyed child.
RECURSIVE dict_clear_loop_uncut(_, _, _)
dict_clear_loop_uncut(d, iter, destroyed) ==
    IF d.fault # "none" THEN d
    ELSE IF ~dict_iter_has_next(iter)
    THEN [d EXCEPT !.h = [a \in DOMAIN d.h \ destroyed |-> d.h[a]]]
    ELSE IF vect_front(iter.stack) \in destroyed
    THEN Faulted(d, "clear: destroyed node read")
    ELSE LET pass == dict_iter_post_order_pass(d.h, iter)
             child == pass.node
             parent == Parent(d.h, child)
         IN  IF child = NULL THEN dict_clear_loop_uncut(d, pass.iter, destroyed)
             ELSE IF parent \in destroyed THEN Faulted(d, "clear: destroyed node read")
             ELSE dict_clear_loop_uncut(d,
                      IF parent # NULL THEN [pass.iter EXCEPT !.current = d.root]
                                       ELSE pass.iter,
                      destroyed \cup {child})

\* The loop of dict_clear: every node the post-order iterator returns is cut
\* from its parent and destroyed.  A destroyed node keeps its place in d.h,
\* with what it held, until the loop ends, and `destroyed` lists it: the loop
\* stops with a fault when it reads a node of that list, which the iterator
\* does with the front of its stack in every turn of its loop.
RECURSIVE dict_clear_loop(_, _, _)
dict_clear_loop(d, iter, destroyed) ==
    IF d.fault # "none" THEN d
    ELSE IF ~dict_iter_has_next(iter)
    THEN [d EXCEPT !.h = [a \in DOMAIN d.h \ destroyed |-> d.h[a]]]
    ELSE IF vect_front(iter.stack) \in destroyed
    THEN Faulted(d, "clear: destroyed node read")
    ELSE LET pass == dict_iter_post_order_pass(d.h, iter)
             child == pass.node
             parent == Parent(d.h, child)
         IN  IF child = NULL THEN dict_clear_loop(d, pass.iter, destroyed)
             ELSE IF parent \in destroyed THEN Faulted(d, "clear: destroyed node read")
             ELSE dict_clear_loop(
                      IF parent # NULL
                      THEN [d EXCEPT !.h = SetChild(@, parent,
                                               Direction(d.h, child, parent), NULL)]
                      ELSE d,
                      IF parent # NULL THEN [pass.iter EXCEPT !.current = d.root]
                                       ELSE pass.iter,
                      destroyed \cup {child})

\* dict_clear without the reset of the size
dict_clear_keeps_size(d) ==
    [dict_clear_loop(d, dict_iter(d, POST_ORDER), {}) EXCEPT !.root = NULL, !.ret = NULL]

dict_clear(d) ==
    [dict_clear_loop(d, dict_iter(d, POST_ORDER), {}) EXCEPT
        !.size = 0, !.root = NULL, !.ret = NULL]

\* ------------------------------------------------------------------- clone
\* Dictionary_new for the copy: an empty map in the heap of the source
Dictionary_new(h) == Dict(h, NULL, 0)

\* dict_clone whose copy takes the nodes of the source: the root and the size
\* are copied and no node is made
dict_clone_shared(d) == Dict(d.h, d.root, d.size)

\* the loop of dict_clone without the value: every key is put with itself
RECURSIVE dict_clone_loop_keys(_, _)
dict_clone_loop_keys(copy, iter) ==
    IF copy.fault # "none" \/ ~dict_iter_has_next(iter) THEN copy
    ELSE LET step == dict_iter_next_node(copy.h, iter, PRE_ORDER)
             key == copy.h[step.node].key
         IN  dict_clone_loop_keys(dict_put(copy, key, key), step.iter)

\* The loop of dict_clone: the key and the value of every node the PRE_ORDER
\* iterator of the source returns are put into the copy.  copy.h is the one
\* heap in which the nodes of the source and of the copy live.
RECURSIVE dict_clone_loop(_, _)
dict_clone_loop(copy, iter) ==
    IF copy.fault # "none" \/ ~dict_iter_has_next(iter) THEN copy
    ELSE LET step == dict_iter_next_node(copy.h, iter, PRE_ORDER)
             key == copy.h[step.node].key
             value == copy.h[step.node].value
         IN  dict_clone_loop(dict_put(copy, key, value), step.iter)

\* the copy dict_clone returns, in the heap that holds the source as well
dict_clone(d) == dict_clone_loop(Dictionary_new(d.h), dict_iter(d, PRE_ORDER))

\* ------------------------------------------------- heap up to address renaming
\* the nodes reachable from n through left and right links, left subtree first
RECURSIVE InOrder(_, _)
InOrder(h, n) ==
    IF n = NULL THEN <<>>
    ELSE InOrder(h, h[n].left) \o <<n>> \o InOrder(h, h[n].right)

Range(seq) == {seq[i] : i \in 1..Len(seq)}

\* Renames the addresses of the live nodes to 1..n, in the order InOrder lists
\* them.  A heap with a node the root does not reach is left as it is.
Normalize(d) ==
    LET order == InOrder(d.h, d.root)
        to(a) == IF a = NULL THEN NULL ELSE CHOOSE i \in 1..Len(order) : order[i] = a
    IN  IF d.fault # "none" \/ Range(order) # DOMAIN d.h THEN d
        ELSE [d EXCEPT
                !.root = to(d.root),
                !.h = [i \in 1..Len(order) |->
                         [d.h[order[i]] EXCEPT !.left = to(@), !.right = to(@),
                                               !.parent = to(@)]]]

\* ------------------------------------------------------- the ReadWriteSync
\* A kernel object: a mutex knows the thread that owns it and how often that
\* thread acquired it, a semaphore its count.
CreateMutex == [kind |-> "mutex", owner |-> NULL, count |-> 0]
CreateSemaphore(initial, maximum) == [kind |-> "semaphore", count |-> initial, max |-> maximum]

\* The constructor with the handles copied back into the structure, and the
\* semaphores created with nothing to take.
ReadWriteSync_new_unsignaled ==
    [rw_sync |-> [readers |-> 0, writers |-> 0,
                  readers_mutex |-> 1, writers_mutex |-> 2, reader_bottleneck_mutex |-> 3,
                  reader_block_sem |-> 4, writer_block_sem |-> 5],
     objects |-> <<CreateMutex, CreateMutex, CreateMutex,
                   CreateSemaphore(0, SYNC_SEMAPHORE_MAX),
                   CreateSemaphore(0, SYNC_SEMAPHORE_MAX)>>]

\* The structure comes zeroed from mem_calloc.  The constructor copies the
\* five (NULL) handle fields into two local arrays and stores the handles of
\* the objects it creates in those arrays: the fields of the structure stay
\* NULL, and the objects 1..5 are referenced by nothing after it returns.
ReadWriteSync_new ==
    [rw_sync |-> [readers |-> 0, writers |-> 0,
                  readers_mutex |-> NULL, writers_mutex |-> NULL,
                  reader_bottleneck_mutex |-> NULL,
                  reader_block_sem |-> NULL, writer_block_sem |-> NULL],
     objects |-> <<CreateMutex, CreateMutex, CreateMutex,
                   CreateSemaphore(SYNC_SEMAPHORE_MAX, SYNC_SEMAPHORE_MAX),
                   CreateSemaphore(SYNC_SEMAPHORE_MAX, SYNC_SEMAPHORE_MAX)>>]

\* WaitForSingleObject(handle, INFINITE) returns: at once, with WAIT_FAILED,
\* for a handle that names no object; for a mutex when it is free or owned
\* by the caller; for a semaphore when its count is positive.
Signaled(objs, handle, thread) ==
    \/ handle \notin DOMAIN objs
    \/ /\ handle \in DOMAIN objs
       /\ IF objs[handle].kind = "mutex"
          THEN objs[handle].owner \in {NULL, thread}
          ELSE objs[handle].count > 0

WaitForSingleObject(objs, handle, thread) ==
    IF handle \notin DOMAIN objs THEN objs
    ELSE IF objs[handle].kind = "mutex"
    THEN [objs EXCEPT ![handle].owner = thread, ![handle].count = @ + 1]
    ELSE [objs EXCEPT ![handle].count = @ - 1]

\* ReleaseMutex fails, and changes nothing, for a handle that names no object
\* and for a mutex the caller does not own.
ReleaseMutex(objs, handle, thread) ==
    IF handle \notin DOMAIN objs THEN objs
    ELSE IF objs[handle].kind # "mutex" \/ objs[handle].owner # thread THEN objs
    ELSE [objs EXCEPT ![handle].count = @ - 1,
                      ![handle].owner = IF objs[handle].count = 1 THEN NULL ELSE thread]

\* ReleaseSemaphore(handle, 1, NULL) fails, and changes nothing, for a handle
\* that names no object and for a semaphore at its maximum.
ReleaseSemaphore(objs, handle) ==
    IF handle \notin DOMAIN objs THEN objs
    ELSE IF objs[handle].kind # "semaphore" \/ objs[handle].count >= objs[handle].max THEN objs
    ELSE [objs EXCEPT ![handle].count = @ + 1]

\* The steps of the four functions, in the order the thread takes them.
\* "load" reads a counter into the thread's local variable; "inc" stores the
\* local variable plus one and, when that is 1, waits for the semaphore named;
\* "dec" stores it minus one and, when that is 0, signals the semaphore named.
\* ++ and -- on the counters are a load and a store: nothing makes them
\* atomic when the mutex around them does not exclude.
sync_read_start ==
    << <<"call", "sync_read_start">>,
       <<"mutex_wait", "reader_bottleneck_mutex">>,
       <<"sem_wait", "reader_block_sem">>,
       <<"mutex_wait", "readers_mutex">>,
       <<"load", "readers">>,
       <<"inc", "readers", "writer_block_sem">>,
       <<"mutex_signal", "readers_mutex">>,
       <<"sem_signal", "reader_block_sem">>,
       <<"mutex_signal", "reader_bottleneck_mutex">>,
       <<"ret", "sync_read_start">> >>

sync_read_end ==
    << <<"call", "sync_read_end">>,
       <<"mutex_wait", "readers_mutex">>,
       <<"io_assert", "readers">>,
       <<"load", "readers">>,
       <<"dec", "readers", "writer_block_sem">>,
       <<"mutex_signal", "readers_mutex">>,
       <<"ret", "sync_read_end">> >>

sync_write_start ==
    << <<"call", "sync_write_start">>,
       <<"mutex_wait", "writers_mutex">>,
       <<"load", "writers">>,
       <<"inc", "writers", "reader_block_sem">>,
       <<"mutex_signal", "writers_mutex">>,
       <<"sem_wait", "writer_block_sem">>,
       <<"ret", "sync_write_start">> >>

sync_write_end ==
    << <<"call", "sync_write_end">>,
       <<"sem_signal", "writer_block_sem">>,
       <<"mutex_wait", "writers_mutex">>,
       <<"io_assert", "writers">>,
       <<"load", "writers">>,
       <<"dec", "writers", "reader_block_sem">>,
       <<"mutex_signal", "writers_mutex">>,
       <<"ret", "sync_write_end">> >>

\* The public operations as a thread runs them: the lock calls around the
\* body.  A body is one step; dict_put_search_steps takes the body of
\* dict_put in two steps, its search and the rest.  dict_iter calls
\* dict_empty on the map it is given, inside dict_clear and inside dict_clone.
\* dict_get that returns without the call of sync_read_end
dict_get_steps_unreleased(key) == sync_read_start \o << <<"dict_get", key>> >>
dict_get_steps(key) == sync_read_start \o << <<"dict_get", key>> >> \o sync_read_end
dict_size_steps == sync_read_start \o << <<"dict_size">> >> \o sync_read_end
dict_empty_steps == sync_read_start \o << <<"dict_empty">> >> \o sync_read_end
dict_contains_steps(key) == sync_read_start \o << <<"dict_contains", key>> >> \o sync_read_end
dict_put_steps(key, value) ==
    sync_write_start \o << <<"dict_put", key, value>> >> \o sync_write_end
dict_put_search_steps(key, value) ==
    sync_write_start \o << <<"dict_binary_search", key>>, <<"dict_put_located", key, value>> >>
                     \o sync_write_end
dict_remove_steps(key) == sync_write_start \o << <<"dict_remove", key>> >> \o sync_write_end
dict_clear_steps ==
    sync_write_start \o dict_empty_steps \o << <<"dict_clear">> >> \o sync_write_end
dict_clone_steps ==
    sync_read_start \o dict_empty_steps \o << <<"dict_clone">> >> \o sync_read_end
\* dict_clone with the rest of dict_iter and every turn of its loop as steps
dict_clone_loop_steps ==
    sync_read_start \o dict_empty_steps \o << <<"dict_iter", PRE_ORDER>>, <<"dict_clone_loop">> >>
                    \o sync_read_end

\* ------------------------------------------------------------------ Vector
\* The Vector keeps its elements in a table it goes around: the element of
\* index i is in the slot (start + i) % capacity.  Slot k of the C array is
\* table[k + 1] here.
INDEX_RIGHT(index, capacity) == IF index = capacity - 1 THEN 0 ELSE index + 1
INDEX_LEFT(index, capacity) == IF index = 0 THEN capacity - 1 ELSE index - 1

Vector_new ==
    [table |-> [k \in 1..VECT_DEFAULT_INITIAL_CAPACITY |-> NULL],
     start |-> 0, end |-> 0, size |-> 0,
     capacity |-> VECT_DEFAULT_INITIAL_CAPACITY,
     fault |-> "none"]

vect_backend_index(v, index) == (v.start + index) % v.capacity
vect_at(v, index) == v.table[vect_backend_index(v, index) + 1]
vect_full(v) == v.size = v.capacity
Vector_empty(v) == v.size = 0
Vector_front(v) == v.table[v.start + 1]

\* math_pow: the power by squaring
RECURSIVE math_pow_from(_, _, _)
math_pow_from(result, base, exp) ==
    IF exp = 0 THEN result
    ELSE math_pow_from(IF exp % 2 = 1 THEN result * base ELSE result, base * base, exp \div 2)
math_pow(base, exp) == math_pow_from(1, base, exp)

\* floor(log(min_size / DEFAULT_INITIAL_CAPACITY) / log(VECTOR_GROW_AMOUNT))
\* for a min_size of DEFAULT_INITIAL_CAPACITY or more
GrowExponent(min_size) ==
    CHOOSE n \in 0..min_size :
        /\ VECT_DEFAULT_INITIAL_CAPACITY * math_pow(VECTOR_GROW_AMOUNT, n) <= min_size
        /\ min_size < VECT_DEFAULT_INITIAL_CAPACITY * math_pow(VECTOR_GROW_AMOUNT, n + 1)

\* vect_grow_to that copies the slots of the old table as they lie, not from
\* start on
vect_grow_to_unwrapped(v, min_size) ==
    IF min_size <= v.capacity THEN [v EXCEPT !.fault = "io_assert: invalid size"]
    ELSE
    LET expanded_capacity ==
            VECT_DEFAULT_INITIAL_CAPACITY
                * math_pow(VECTOR_GROW_AMOUNT, 1 + GrowExponent(min_size))
        expanded_table ==
            [k \in 1..expanded_capacity |-> IF k <= v.size THEN v.table[k] ELSE NULL]
    IN  [v EXCEPT !.table = expanded_table,
                  !.capacity = expanded_capacity,
                  !.start = 0,
                  !.end = IF ~Vector_empty(v) THEN v.size - 1 ELSE 0]

vect_grow_to(v, min_size) ==
    IF min_size <= v.capacity THEN [v EXCEPT !.fault = "io_assert: invalid size"]
    ELSE
    LET expanded_capacity ==
            VECT_DEFAULT_INITIAL_CAPACITY
                * math_pow(VECTOR_GROW_AMOUNT, 1 + GrowExponent(min_size))
        expanded_table ==
            [k \in 1..expanded_capacity |-> IF k <= v.size THEN vect_at(v, k - 1) ELSE NULL]
    IN  [v EXCEPT !.table = expanded_table,
                  !.capacity = expanded_capacity,
                  !.start = 0,
                  !.end = IF ~Vector_empty(v) THEN v.size - 1 ELSE 0]

vect_grow(v) == vect_grow_to(v, v.capacity * VECTOR_GROW_AMOUNT)

\* vect_push_front on the table
Vector_push_front(v, data) ==
    LET grown == IF vect_full(v) THEN vect_grow(v) ELSE v
        moved == IF ~Vector_empty(grown)
                 THEN [grown EXCEPT !.start = INDEX_LEFT(grown.start, grown.capacity)]
                 ELSE grown
    IN  [moved EXCEPT !.table[moved.start + 1] = data, !.size = @ + 1]

\* vect_push_back on the table
Vector_push_back(v, data) ==
    LET grown == IF vect_full(v) THEN vect_grow(v) ELSE v
        moved == IF ~Vector_empty(grown)
                 THEN [grown EXCEPT !.end = INDEX_RIGHT(grown.end, grown.capacity)]
                 ELSE grown
    IN  [moved EXCEPT !.table[moved.end + 1] = data, !.size = @ + 1]

\* vect_pop_front on the table
Vector_pop_front(v) ==
    IF v.size = 0 THEN [v EXCEPT !.fault = "io_assert: empty"]
    ELSE [v EXCEPT !.start = IF v.size > 1 THEN INDEX_RIGHT(v.start, v.capacity) ELSE @,
                   !.size = @ - 1]

\* The operations of the Vector as a thread runs them on vect->rw_sync, a
\* ReadWriteSync of its own made by the same ReadWriteSync_new.  vect_empty
\* and vect_at take the read side; vect_grow_to, which vect_grow calls for a
\* full Vector, takes the write side again, reads every element through
\* vect_at and asks vect_empty; vect_push_front and vect_push_back call
\* vect_grow and vect_empty between their sync_write_start and sync_write_end.
vect_empty_steps == sync_read_start \o << <<"vect_empty">> >> \o sync_read_end
vect_at_steps(index) == sync_read_start \o << <<"vect_at", index>> >> \o sync_read_end
RECURSIVE vect_grow_to_loop(_, _)
vect_grow_to_loop(i, v) ==
    IF i >= v.size THEN <<>> ELSE vect_at_steps(i) \o vect_grow_to_loop(i + 1, v)
vect_grow_to_steps(v, min_size) ==
    sync_write_start \o vect_grow_to_loop(0, v) \o << <<"vect_grow_to", min_size>> >>
                     \o vect_empty_steps \o sync_write_end
vect_grow_steps(v) == vect_grow_to_steps(v, v.capacity * VECTOR_GROW_AMOUNT)
vect_push_front_steps(v, data) ==
    sync_write_start \o (IF vect_full(v) THEN vect_grow_steps(v) ELSE <<>>)
                     \o vect_empty_steps \o << <<"vect_push_front", data>> >>
                     \o sync_write_end
vect_push_back_steps(v, data) ==
    sync_write_start \o (IF vect_full(v) THEN vect_grow_steps(v) ELSE <<>>)
                     \o vect_empty_steps \o << <<"vect_push_back", data>> >>
                     \o sync_write_end

\* --------------------------------------------------------------- HashTable
\* The array of the table holds the chains: the chain of slot k of the C array
\* is the sequence buckets[k + 1], the bucket the array points to first and
\* then the buckets its next links lead to.
HashTable_new ==
    [buckets |-> [k \in 1..TABLE_DEFAULT_INITIAL_CAPACITY |-> <<>>],
     capacity |-> TABLE_DEFAULT_INITIAL_CAPACITY,
     size |-> 0]

\* the hash function the table was made with
TableHash(key) == key % MaxTableHash
\* the equals function the table was made with
TableEquals(a, b) == a = b

MODULUS(operand, base_2_num) == operand % base_2_num
table_Bucket_new(key, value, hash) == [key |-> key, value |-> value, hash |-> hash]
table_Bucket_match(bucket, key, hash) ==
    bucket.hash = hash /\ (bucket.key = key \/ TableEquals(key, bucket.key))
table_design_load(t) == t.size * 100 >= LOAD_FACTOR * t.capacity

\* the places of the chain whose bucket matches
Matches(chain, key, hash) ==
    {i \in 1..Len(chain) : table_Bucket_match(chain[i], key, hash)}
Least(places) == CHOOSE i \in places : \A j \in places : i <= j

\* table_search: the slot, the place in its chain of the bucket returned
\* (NULL for none) and found
table_search(t, key, hash) ==
    LET slot == MODULUS(hash, t.capacity) + 1
        chain == t.buckets[slot]
        places == Matches(chain, key, hash)
    IN  [slot |-> slot,
         place |-> IF places # {} THEN Least(places) ELSE Len(chain),
         found |-> places # {}]

table_get(t, key) ==
    LET located == table_search(t, key, TableHash(key))
    IN  IF located.found THEN t.buckets[located.slot][located.place].value ELSE NULL

table_contains(t, key) == table_search(t, key, TableHash(key)).found

\* the buckets a table_Iterator returns, in its order
RECURSIVE Chained(_, _)
Chained(t, slot) ==
    IF slot > t.capacity THEN <<>> ELSE t.buckets[slot] \o Chained(t, slot + 1)
table_iter_all(t) ==
    LET all == Chained(t, 1)
    IN  SubSeq(all, 1, IF t.size < Len(all) THEN t.size ELSE Len(all))

\* math_min_power_gt: the least power of the base that is the base or more
\* and greater_than or more
math_min_power_gt(base, greater_than) ==
    IF greater_than <= base THEN base
    ELSE math_pow(base, CHOOSE n \in 1..greater_than :
                            /\ math_pow(base, n) >= greater_than
                            /\ math_pow(base, n - 1) < greater_than)
MATH_DIV_CEIL(dividend, divisor) == 1 + ((dividend - 1) \div divisor)

RECURSIVE table_put(_, _, _)
RECURSIVE table_resize(_, _)
RECURSIVE table_rehash(_, _)

\* the loop of table_resize: the buckets put into the expanded table
table_rehash(expanded, rest) ==
    IF rest = <<>> THEN expanded
    ELSE table_rehash(table_put(expanded, Head(rest).key, Head(rest).value).table, Tail(rest))

table_resize(t, min_size) ==
    LET wanted == (min_size * 100) \div LOAD_FACTOR
        desired_capacity ==
            IF wanted > TABLE_DEFAULT_INITIAL_CAPACITY
            THEN TABLE_DEFAULT_INITIAL_CAPACITY
                     * math_min_power_gt(GROW_FACTOR,
                           MATH_DIV_CEIL(wanted, TABLE_DEFAULT_INITIAL_CAPACITY))
            ELSE TABLE_DEFAULT_INITIAL_CAPACITY
        empty == [buckets |-> [k \in 1..desired_capacity |-> <<>>],
                  capacity |-> desired_capacity,
                  size |-> 0]
    IN  IF desired_capacity > t.size
        THEN [t EXCEPT !.buckets = table_rehash(empty, table_iter_all(t)).buckets,
                       !.capacity = desired_capacity]
        ELSE t

\* table_put: the table afterwards and the value replaced
table_put(t, key, value) ==
    LET hash == TableHash(key)
        t1 == IF table_design_load(t) THEN table_resize(t, t.capacity * GROW_FACTOR) ELSE t
        located == table_search(t1, key, hash)
    IN  IF ~located.found
        THEN [table |-> [t1 EXCEPT
                            !.buckets[located.slot] =
                                Append(@, table_Bucket_new(key, value, hash)),
                            !.size = @ + 1],
              ret |-> NULL]
        ELSE [table |-> [t1 EXCEPT !.buckets[located.slot][located.place].value = value],
              ret |-> t1.buckets[located.slot][located.place].value]

\* the chain without the bucket of the place
Unchained(chain, place) ==
    SubSeq(chain, 1, place - 1) \o SubSeq(chain, place + 1, Len(chain))

\* table_remove that links the array to the bucket behind the one removed
table_remove_relinked(t, key) ==
    LET hash == TableHash(key)
        index == MODULUS(hash, t.capacity) + 1
        chain == t.buckets[index]
        places == Matches(chain, key, hash)
    IN  IF places = {} THEN [table |-> t, ret |-> FALSE]
        ELSE [table |-> [t EXCEPT !.buckets[index] = Unchained(chain, Least(places)),
                                  !.size = @ - 1],
              ret |-> TRUE]

\* table_remove: the table afterwards and removed.  With no bucket before
\* the one removed (prev == NULL) the slot of the array is set to NULL.
table_remove(t, key) ==
    LET hash == TableHash(key)
        index == MODULUS(hash, t.capacity) + 1
        chain == t.buckets[index]
        places == Matches(chain, key, hash)
    IN  IF places = {} THEN [table |-> t, ret |-> FALSE]
        ELSE [table |-> [t EXCEPT
                            !.buckets[index] =
                                IF Least(places) # 1
                                THEN Unchained(chain, Least(places))
                                ELSE <<>>,
                            !.size = @ - 1],
              ret |-> TRUE]

\* ------------------------------------------------------------------ actions
\* abs is the map the calls made so far describe, kept beside the tree: put
\* binds the key to the value, remove unbinds the key, clear unbinds every key.
EmptyMap == [k \in {} |-> NULL]
Bind(m, key, value) == [k \in DOMAIN m \cup {key} |-> IF k = key THEN value ELSE m[k]]
Unbind(m, key) == [k \in DOMAIN m \ {key} |-> m[k]]

\* no value: what known and op.expect hold when nothing is known
Unknown == NULL - 1
Idle == [name |-> "idle", key |-> NULL, value |-> NULL, expect |-> Unknown, solo |-> FALSE]

\* Dictionary_new: an empty map with a new ReadWriteSync; no thread is in a call
Constructed ==
    /\ nodes = EmptyMap
    /\ root = NULL
    /\ size = 0
    /\ fault = "none"
    /\ abs = EmptyMap
    /\ rw = ReadWriteSync_new.rw_sync
    /\ objects = ReadWriteSync_new.objects
    /\ pc = [t \in Threads |-> <<>>]
    /\ reg = [t \in Threads |-> NULL]
    /\ op = [t \in Threads |-> Idle]
    /\ returned = [t \in Threads |-> <<>>]
    /\ held = [t \in Threads |-> [read |-> 0, write |-> 0]]
    /\ vect = Vector_new
    /\ pushed = <<>>
    /\ table = HashTable_new
    /\ iters = [t \in Threads |-> [current |-> NULL, stack |-> <<>>]]
    /\ ahead = [t \in Threads |-> [readers |-> {}, writers |-> {}]]

\* known follows the keys of its domain: none here, the keys of Watched in
\* SpecRace
Init == Constructed /\ known = EmptyMap
InitRace == Constructed /\ known = [k \in Watched |-> Unknown]

\* the Dictionary of the current state
Now == Dict(nodes, root, size)

Becomes(d, m) ==
    \E n \in {Normalize(d)} :
        /\ nodes' = n.h
        /\ root' = n.root
        /\ size' = n.size
        /\ fault' = n.fault
        /\ abs' = m
        /\ UNCHANGED <<syncvars, containers>>

Put(key, value) ==
    /\ fault = "none"
    /\ Becomes(dict_put(Now, key, value), Bind(abs, key, value))

Remove(key) ==
    /\ fault = "none"
    /\ Becomes(dict_remove(Now, key), Unbind(abs, key))

Clear ==
    /\ fault = "none"
    /\ Becomes(dict_clear(Now), EmptyMap)

\* Spec: every key of 1..MaxKey with every value of 1..MaxVal
Next ==
    \/ \E key \in Keys, value \in Values : Put(key, value)
    \/ \E key \in Keys : Remove(key)
    \/ Clear
Spec == Init /\ [][Next]_vars

\* SpecDeep: the keys 1..MaxDeepKey, each stored with the value of the same
\* number, so that larger trees are reached
DeepValue(key) == key
NextDeep ==
    \/ \E key \in DeepKeys : Put(key, DeepValue(key))
    \/ \E key \in DeepKeys : Remove(key)
    \/ Clear
SpecDeep == Init /\ [][NextDeep]_vars

\* ------------------------------------------------------------------ threads
\* the step the thread takes next
Ins(t) == Head(pc[t])
Running(t, step) == fault = "none" /\ pc[t] # <<>> /\ Ins(t)[1] = step
Advance(t) == pc' = [pc EXCEPT ![t] = Tail(@)]

\* how many steps of the kind the thread has still to take on the counter
Pending(t, step, counter) ==
    Cardinality({i \in 1..Len(pc[t]) : pc[t][i][1] = step /\ pc[t][i][2] = counter})

RECURSIVE Sum(_, _)
Sum(f, S) == IF S = {} THEN 0 ELSE LET x == CHOOSE y \in S : TRUE IN f[x] + Sum(f, S \ {x})

\* The acquisitions the counter should count: those whose increment is done
\* and whose decrement is still to come.  Drift is what the counter holds
\* beyond them, after increments or decrements of two threads were lost.
Counted(counter) ==
    Sum([t \in Threads |-> Pending(t, "dec", counter) - Pending(t, "inc", counter)], Threads)
Drift(counter) == rw[counter] - Counted(counter)

IsWrite(o) == o.name \in {"dict_put", "dict_remove", "dict_clear"}
\* the call writes the key: dict_clear writes every key
Writes(o, key) == IsWrite(o) /\ (o.name = "dict_clear" \/ o.key = key)
Reads(o, key) == o.name \in {"dict_get", "dict_contains"} /\ o.key = key
\* the two calls write a common key
Collide(a, b) == \E k \in DOMAIN known : Writes(a, k) /\ Writes(b, k)

\* the assertions on the arguments with dict_put asserting its key only
NullArgument_key_only(name, key, value) ==
    name \in {"dict_get", "dict_contains", "dict_put", "dict_remove"} /\ key = NULL

\* io_assert(key != NULL, ...) at the entry of dict_get, dict_contains,
\* dict_put and dict_remove, and io_assert(value != NULL, ...) of dict_put:
\* the call has an argument that fails them
NullArgument(name, key, value) ==
    \/ name \in {"dict_get", "dict_contains", "dict_put", "dict_remove"} /\ key = NULL
    \/ name = "dict_put" /\ value = NULL

\* the steps of a call that passed the assertions on its arguments
Enter(t, name, key, value, steps) ==
    /\ pc' = [pc EXCEPT ![t] = steps]
    /\ returned' = [returned EXCEPT ![t] = <<>>]
    /\ LET new == [name |-> name, key |-> key, value |-> value,
                   expect |-> IF key \in DOMAIN known THEN known[key] ELSE Unknown,
                   solo |-> FALSE]
       IN  IF DOMAIN known = {}
           THEN UNCHANGED <<op, known>>
           ELSE IF IsWrite(new)
           THEN /\ known' = [k \in DOMAIN known |->
                               IF Writes(new, k) THEN Unknown ELSE known[k]]
                /\ op' = [u \in Threads |->
                            IF u = t
                            THEN [new EXCEPT
                                    !.solo = \A w \in Threads \ {t} : ~Collide(new, op[w])]
                            ELSE IF Collide(new, op[u]) THEN [op[u] EXCEPT !.solo = FALSE]
                            ELSE IF \E k \in DOMAIN known : Writes(new, k) /\ Reads(op[u], k)
                            THEN [op[u] EXCEPT !.expect = Unknown]
                            ELSE op[u]]
           ELSE /\ known' = known
                /\ op' = [op EXCEPT ![t] = new]
    /\ UNCHANGED <<nodes, root, size, fault, abs, containers, rw, objects, reg, held, ahead>>

\* A thread that is in no call starts one.  The assertions on the arguments
\* come first: one that fails stops the program before the call has done
\* anything.  A write makes the value of its key unknown until it has
\* returned, and what a running read of the key may expect; writes of one key
\* that run beside each other leave it unknown.
Invoke(t, name, key, value, steps) ==
    /\ fault = "none"
    /\ pc[t] = <<>>
    /\ Drift("readers") \in -MaxCount..MaxCount
    /\ Drift("writers") \in -MaxCount..MaxCount
    /\ name = "dict_put" => size < MaxSyncSize
    /\ IF NullArgument(name, key, value)
       THEN /\ fault' = "io_assert: null pointer"
            /\ UNCHANGED <<nodes, root, size, abs, containers, syncvars>>
       ELSE Enter(t, name, key, value, steps)

\* entry of one of the four functions of the ReadWriteSync
Call(t) ==
    /\ Running(t, "call")
    /\ Advance(t)
    /\ LET f == Ins(t)[2]
           others == Threads \ {t}
       IN  /\ held' = [held EXCEPT ![t].read = IF f = "sync_read_end" THEN @ - 1 ELSE @,
                                   ![t].write = IF f = "sync_write_end" THEN @ - 1 ELSE @]
           /\ ahead' = [u \in Threads |->
                IF u = t
                THEN [readers |-> IF f = "sync_write_start"
                                  THEN ahead[t].readers \cup {r \in others : held[r].read > 0}
                                  ELSE IF f = "sync_write_end" THEN {}
                                  ELSE ahead[t].readers,
                      writers |-> IF f = "sync_read_start"
                                  THEN ahead[t].writers \cup {w \in others : held[w].write > 0}
                                  ELSE IF f = "sync_read_end" THEN {}
                                  ELSE ahead[t].writers]
                ELSE [readers |-> IF f = "sync_read_end" /\ held[t].read = 1
                                  THEN ahead[u].readers \ {t} ELSE ahead[u].readers,
                      writers |-> IF f = "sync_write_end" /\ held[t].write = 1
                                  THEN ahead[u].writers \ {t} ELSE ahead[u].writers]]
    /\ UNCHANGED <<nodes, root, size, fault, abs, containers, rw, objects, reg, op, returned, known>>

\* return of one of the four functions; with no step left the call of the
\* map returns too
Return(t) ==
    /\ Running(t, "ret")
    /\ Advance(t)
    /\ LET f == Ins(t)[2]
       IN  held' = [held EXCEPT ![t].read = IF f = "sync_read_start" THEN @ + 1 ELSE @,
                                ![t].write = IF f = "sync_write_start" THEN @ + 1 ELSE @]
    /\ IF Tail(pc[t]) = <<>>
       THEN /\ op' = [op EXCEPT ![t] = Idle]
            /\ returned' = [returned EXCEPT ![t] = <<>>]
            /\ known' = [k \in DOMAIN known |->
                           IF ~Writes(op[t], k) THEN known[k]
                           ELSE IF ~op[t].solo THEN Unknown
                           ELSE IF op[t].name = "dict_put" THEN op[t].value
                           ELSE NULL]
       ELSE UNCHANGED <<op, returned, known>>
    /\ UNCHANGED <<nodes, root, size, fault, abs, containers, rw, objects, reg, ahead>>

mutex_wait(t) ==
    /\ Running(t, "mutex_wait")
    /\ Signaled(objects, rw[Ins(t)[2]], t)
    /\ objects' = WaitForSingleObject(objects, rw[Ins(t)[2]], t)
    /\ Advance(t)
    /\ UNCHANGED <<nodes, root, size, fault, abs, containers, rw, reg, op, returned, held, ahead, known>>

sem_wait(t) ==
    /\ Running(t, "sem_wait")
    /\ Signaled(objects, rw[Ins(t)[2]], t)
    /\ objects' = WaitForSingleObject(objects, rw[Ins(t)[2]], t)
    /\ Advance(t)
    /\ UNCHANGED <<nodes, root, size, fault, abs, containers, rw, reg, op, returned, held, ahead, known>>

mutex_signal(t) ==
    /\ Running(t, "mutex_signal")
    /\ objects' = ReleaseMutex(objects, rw[Ins(t)[2]], t)
    /\ Advance(t)
    /\ UNCHANGED <<nodes, root, size, fault, abs, containers, rw, reg, op, returned, held, ahead, known>>

sem_signal(t) ==
    /\ Running(t, "sem_signal")
    /\ objects' = ReleaseSemaphore(objects, rw[Ins(t)[2]])
    /\ Advance(t)
    /\ UNCHANGED <<nodes, root, size, fault, abs, containers, rw, reg, op, returned, held, ahead, known>>

\* The counters are unsigned: a state holds the value that differs from the
\* counter by a multiple of 2^32 and is nearest to 0, so that 0 - 1 is -1
\* (UINT_MAX) and "greater than 0" is "not 0".
Load(t) ==
    /\ Running(t, "load")
    /\ reg' = [reg EXCEPT ![t] = rw[Ins(t)[2]]]
    /\ Advance(t)
    /\ UNCHANGED <<nodes, root, size, fault, abs, containers, rw, objects, op, returned, held, ahead, known>>

Increment(t) ==
    /\ Running(t, "inc")
    /\ rw' = [rw EXCEPT ![Ins(t)[2]] = reg[t] + 1]
    /\ reg' = [reg EXCEPT ![t] = NULL]
    /\ pc' = [pc EXCEPT ![t] = IF reg[t] + 1 = 1
                                THEN << <<"sem_wait", Ins(t)[3]>> >> \o Tail(@)
                                ELSE Tail(@)]
    /\ UNCHANGED <<nodes, root, size, fault, abs, containers, objects, op, returned, held, ahead, known>>

Decrement(t) ==
    /\ Running(t, "dec")
    /\ rw' = [rw EXCEPT ![Ins(t)[2]] = reg[t] - 1]
    /\ reg' = [reg EXCEPT ![t] = NULL]
    /\ pc' = [pc EXCEPT ![t] = IF reg[t] - 1 = 0
                                THEN << <<"sem_signal", Ins(t)[3]>> >> \o Tail(@)
                                ELSE Tail(@)]
    /\ UNCHANGED <<nodes, root, size, fault, abs, containers, objects, op, returned, held, ahead, known>>

\* io_assert(rw_sync->readers > 0, ...) and io_assert(rw_sync->writers > 0, ...)
AssertCounter(t) ==
    /\ Running(t, "io_assert")
    /\ IF rw[Ins(t)[2]] # 0
       THEN Advance(t) /\ fault' = fault
       ELSE pc' = pc /\ fault' = "io_assert: no " \o Ins(t)[2]
    /\ UNCHANGED <<nodes, root, size, abs, containers, rw, objects, reg, op, returned, held, ahead, known>>

\* the body of a call that reads the map
ReadBody(t, value) ==
    /\ returned' = [returned EXCEPT ![t] = <<Ins(t)[1], value>>]
    /\ Advance(t)
    /\ UNCHANGED <<nodes, root, size, fault, abs, containers, rw, objects, reg, op, held, ahead, known>>

dict_get_body(t) == Running(t, "dict_get") /\ ReadBody(t, dict_get(Now, Ins(t)[2]))
dict_contains_body(t) ==
    Running(t, "dict_contains") /\ ReadBody(t, IF dict_contains(Now, Ins(t)[2]) THEN 1 ELSE 0)
dict_size_body(t) == Running(t, "dict_size") /\ ReadBody(t, dict_size(Now))
dict_empty_body(t) == Running(t, "dict_empty") /\ ReadBody(t, IF dict_empty(Now) THEN 1 ELSE 0)
\* the loop of dict_clone: the pairs a PRE_ORDER iterator hands to the copy
dict_clone_body(t) ==
    Running(t, "dict_clone") /\ ReadBody(t, Len(dict_iter_all(Now, PRE_ORDER)))

\* the body of a call that writes the map
WriteBody(t, d) ==
    /\ nodes' = d.h
    /\ root' = d.root
    /\ size' = d.size
    /\ fault' = d.fault
    /\ returned' = [returned EXCEPT ![t] = <<Ins(t)[1], d.ret>>]
    /\ reg' = [reg EXCEPT ![t] = NULL]
    /\ Advance(t)
    /\ UNCHANGED <<abs, containers, rw, objects, op, held, ahead, known>>

dict_put_body(t) ==
    /\ Running(t, "dict_put")
    /\ WriteBody(t, Normalize(dict_put(Now, Ins(t)[2], Ins(t)[3])))
dict_remove_body(t) ==
    /\ Running(t, "dict_remove")
    /\ WriteBody(t, Normalize(dict_remove(Now, Ins(t)[2])))
dict_clear_body(t) ==
    /\ Running(t, "dict_clear")
    /\ WriteBody(t, Normalize(dict_clear(Now)))

\* dict_put, first step: located and compared
dict_binary_search_body(t) ==
    /\ Running(t, "dict_binary_search")
    /\ reg' = [reg EXCEPT ![t] = dict_binary_search(Now, Ins(t)[2])]
    /\ Advance(t)
    /\ UNCHANGED <<nodes, root, size, fault, abs, containers, rw, objects, op, returned, held, ahead, known>>

\* the nodes the searches of the other threads found, still to be used
Located(t) ==
    {reg[u].node : u \in {w \in Threads \ {t} :
                             pc[w] # <<>> /\ Ins(w)[1] = "dict_put_located"}}

\* The heap without the nodes that neither the root reaches nor a thread
\* still points to: memory nothing refers to is not part of the state.
Collect(d, keep) ==
    LET live == (Range(InOrder(d.h, d.root)) \cup keep) \cap DOMAIN d.h
    IN  [d EXCEPT !.h = [a \in live |-> d.h[a]]]

\* dict_put, the rest, with what the search found when it ran
dict_put_located_body(t) ==
    /\ Running(t, "dict_put_located")
    /\ WriteBody(t, Collect(dict_put_located(Now, Ins(t)[2], Ins(t)[3], reg[t]), Located(t)))

\* the steps inside the functions of the ReadWriteSync
SyncStep(t) ==
    \/ Call(t) \/ Return(t)
    \/ mutex_wait(t) \/ sem_wait(t) \/ mutex_signal(t) \/ sem_signal(t)
    \/ Load(t) \/ Increment(t) \/ Decrement(t) \/ AssertCounter(t)

\* the calls that read the map through sync_read_start and sync_read_end only
StartRead(t) ==
    \/ \E key \in SyncKeys : Invoke(t, "dict_get", key, NULL, dict_get_steps(key))
    \/ \E key \in SyncKeys : Invoke(t, "dict_contains", key, NULL, dict_contains_steps(key))
    \/ Invoke(t, "dict_size", NULL, NULL, dict_size_steps)
    \/ Invoke(t, "dict_empty", NULL, NULL, dict_empty_steps)

\* the calls that write the map through sync_write_start and sync_write_end only
StartWrite(t) ==
    \/ \E key \in SyncKeys :
          Invoke(t, "dict_put", key, DeepValue(key), dict_put_steps(key, DeepValue(key)))
    \/ \E key \in SyncKeys : Invoke(t, "dict_remove", key, NULL, dict_remove_steps(key))

\* the calls that make an iterator of the map
StartIter(t) ==
    \/ Invoke(t, "dict_clear", NULL, NULL, dict_clear_steps)
    \/ Invoke(t, "dict_clone", NULL, NULL, dict_clone_steps)

\* SpecSync: MaxThread threads call the reading and the writing operations
\* of one map, with the keys 1..MaxSyncKey, each stored with the value of the
\* same number.  The body of a call is one step.
NextSync ==
    \E t \in Threads :
        \/ StartRead(t) \/ StartWrite(t) \/ SyncStep(t)
        \/ dict_get_body(t) \/ dict_contains_body(t) \/ dict_size_body(t)
        \/ dict_empty_body(t) \/ dict_put_body(t) \/ dict_remove_body(t)
SpecSync == Init /\ [][NextSync]_vars

\* SpecCalls: one thread calls every operation of the map, the others are in
\* no call.
NextCalls ==
    \/ StartRead(1) \/ StartWrite(1) \/ StartIter(1) \/ SyncStep(1)
    \/ dict_get_body(1) \/ dict_contains_body(1) \/ dict_size_body(1)
    \/ dict_empty_body(1) \/ dict_clone_body(1)
    \/ dict_put_body(1) \/ dict_remove_body(1) \/ dict_clear_body(1)
SpecCalls == Init /\ [][NextCalls]_vars

\* SpecRace: the threads call dict_put and dict_get, and the body of dict_put
\* is two steps.
StartRace(t) ==
    \/ \E key \in Watched : Invoke(t, "dict_get", key, NULL, dict_get_steps(key))
    \/ \E key \in RaceKeys :
          Invoke(t, "dict_put", key, DeepValue(key), dict_put_search_steps(key, DeepValue(key)))

NextRace ==
    \E t \in Threads :
        \/ StartRace(t) \/ SyncStep(t)
        \/ dict_get_body(t) \/ dict_binary_search_body(t) \/ dict_put_located_body(t)
SpecRace == InitRace /\ [][NextRace]_vars

\* SpecFair: the threads call dict_size and dict_put; a thread that is in a
\* call is scheduled again and again, so it takes its next step when that
\* step stays possible.  Nothing makes a thread start a call.
StartFair(t) ==
    \/ Invoke(t, "dict_size", NULL, NULL, dict_size_steps)
    \/ \E key \in SyncKeys :
          Invoke(t, "dict_put", key, DeepValue(key), dict_put_steps(key, DeepValue(key)))
RunFair(t) == SyncStep(t) \/ dict_size_body(t) \/ dict_put_body(t)
NextFair == \E t \in Threads : StartFair(t) \/ RunFair(t)
SpecFair == Init /\ [][NextFair]_vars /\ \A t \in Threads : WF_vars(RunFair(t))

\* SpecArgs: one thread calls the operations that take a key, with every key
\* of 1..MaxSyncKey and with no key, and dict_put with and without a value.
ArgKeys == {NULL} \cup SyncKeys
ArgValues == {NULL} \cup {DeepValue(key) : key \in SyncKeys}
StartArgs(t) ==
    \/ \E key \in ArgKeys : Invoke(t, "dict_get", key, NULL, dict_get_steps(key))
    \/ \E key \in ArgKeys : Invoke(t, "dict_contains", key, NULL, dict_contains_steps(key))
    \/ \E key \in ArgKeys, value \in ArgValues :
          Invoke(t, "dict_put", key, value, dict_put_steps(key, value))
    \/ \E key \in ArgKeys : Invoke(t, "dict_remove", key, NULL, dict_remove_steps(key))

NextArgs ==
    \/ StartArgs(1) \/ SyncStep(1)
    \/ dict_get_body(1) \/ dict_contains_body(1) \/ dict_put_body(1) \/ dict_remove_body(1)
SpecArgs == Init /\ [][NextArgs]_vars

\* SpecLock: one thread calls the four functions of the ReadWriteSync in any
\* order, an end without a start before it as well.
StartLock(t) ==
    \/ Invoke(t, "sync_read_start", NULL, NULL, sync_read_start)
    \/ Invoke(t, "sync_read_end", NULL, NULL, sync_read_end)
    \/ Invoke(t, "sync_write_start", NULL, NULL, sync_write_start)
    \/ Invoke(t, "sync_write_end", NULL, NULL, sync_write_end)

NextLock == StartLock(1) \/ SyncStep(1)
SpecLock == Init /\ [][NextLock]_vars

\* SpecClear: the threads call dict_clear and dict_put, one step at a time; a
\* thread that is in a call is scheduled again and again.
StartClear(t) ==
    \/ Invoke(t, "dict_clear", NULL, NULL, dict_clear_steps)
    \/ \E key \in SyncKeys :
          Invoke(t, "dict_put", key, DeepValue(key), dict_put_steps(key, DeepValue(key)))
RunClear(t) == SyncStep(t) \/ dict_empty_body(t) \/ dict_clear_body(t) \/ dict_put_body(t)
NextClear == \E t \in Threads : StartClear(t) \/ RunClear(t)
SpecClear == Init /\ [][NextClear]_vars /\ \A t \in Threads : WF_vars(RunClear(t))

\* SpecClone: thread 1 calls dict_clone, whose iterator takes its steps one
\* at a time; the other threads call dict_put and dict_remove.  A thread that
\* is in a call is scheduled again and again.
\* The rest of dict_iter after its dict_empty: the root is pushed when
\* dict_empty returned false.
dict_iter_body(t) ==
    /\ Running(t, "dict_iter")
    /\ iters' = [iters EXCEPT ![t] =
                 IF returned[t] = <<"dict_empty", 0>>
                 THEN [current |-> IF Ins(t)[2] # PRE_ORDER THEN root ELSE NULL,
                       stack |-> vect_push_front(<<>>, root)]
                 ELSE [current |-> NULL, stack |-> <<>>]]
    /\ Advance(t)
    /\ UNCHANGED <<dictvars, rw, objects, reg, op, returned, held, ahead, known,
                   vect, pushed, table>>

\* One turn of the loop of dict_clone: dict_iter_has_next, dict_iter_next and
\* the dict_put into the copy, which is no part of the state.  The node at the
\* front of the stack may be NULL, or freed by a dict_remove since it was
\* pushed: dict_iter_pre_order reads its links all the same.  The read of a
\* freed node stops the program, or finds what the node held, of which only
\* its links matter here: none is followed.
dict_clone_loop_body(t) ==
    /\ Running(t, "dict_clone_loop")
    /\ IF ~dict_iter_has_next(iters[t])
       THEN /\ Advance(t)
            /\ UNCHANGED <<fault, iters>>
       ELSE LET iterated == vect_front(iters[t].stack)
            IN  IF iterated = NULL
                THEN /\ fault' = "null dereference"
                     /\ UNCHANGED <<pc, iters>>
                ELSE IF iterated \notin DOMAIN nodes
                THEN \/ /\ fault' = "freed node read"
                        /\ UNCHANGED <<pc, iters>>
                     \/ /\ iters' = [iters EXCEPT ![t].stack = vect_pop_front(@)]
                        /\ UNCHANGED <<pc, fault>>
                ELSE /\ iters' = [iters EXCEPT ![t] = dict_iter_pre_order(nodes, @).iter]
                     /\ UNCHANGED <<pc, fault>>
    /\ UNCHANGED <<nodes, root, size, abs, rw, objects, reg, op, returned, held, ahead, known,
                   vect, pushed, table>>

StartClone(t) ==
    IF t = 1
    THEN Invoke(t, "dict_clone", NULL, NULL, dict_clone_loop_steps)
    ELSE \/ \E key \in SyncKeys :
               Invoke(t, "dict_put", key, DeepValue(key), dict_put_steps(key, DeepValue(key)))
         \/ \E key \in SyncKeys : Invoke(t, "dict_remove", key, NULL, dict_remove_steps(key))
RunClone(t) ==
    \/ SyncStep(t) \/ dict_empty_body(t) \/ dict_iter_body(t) \/ dict_clone_loop_body(t)
    \/ dict_put_body(t) \/ dict_remove_body(t)
NextClone == \E t \in Threads : StartClone(t) \/ RunClone(t)
SpecClone == Init /\ [][NextClone]_vars /\ \A t \in Threads : WF_vars(RunClone(t))

\* SpecVector: elements are pushed to the front of one Vector and popped from
\* it, up to MaxVectSize elements; pushed is the stack they make.
PushFront(data) ==
    /\ vect.fault = "none"
    /\ vect.size < MaxVectSize
    /\ vect' = Vector_push_front(vect, data)
    /\ pushed' = vect_push_front(pushed, data)
    /\ UNCHANGED <<dictvars, syncvars, table, iters>>

PopFront ==
    /\ vect.fault = "none"
    /\ vect' = Vector_pop_front(vect)
    /\ pushed' = IF vect_empty(pushed) THEN pushed ELSE vect_pop_front(pushed)
    /\ UNCHANGED <<dictvars, syncvars, table, iters>>

NextVector ==
    \/ \E data \in VectValues(vect.size) : PushFront(data)
    \/ PopFront
SpecVector == Init /\ [][NextVector]_vars

\* SpecVectorCalls: one thread pushes to the front and to the back of one
\* Vector, up to MaxVectSize elements, taking the steps of the lock calls one
\* at a time; the element it pushes is its own number.
vect_empty_body(t) ==
    Running(t, "vect_empty") /\ ReadBody(t, IF Vector_empty(vect) THEN 1 ELSE 0)
vect_at_body(t) == Running(t, "vect_at") /\ ReadBody(t, vect_at(vect, Ins(t)[2]))

VectBody(t, v, stack) ==
    /\ vect' = v
    /\ pushed' = stack
    /\ fault' = v.fault
    /\ returned' = [returned EXCEPT ![t] = <<Ins(t)[1], NULL>>]
    /\ Advance(t)
    /\ UNCHANGED <<nodes, root, size, abs, rw, objects, reg, op, held, ahead, known, table, iters>>

vect_grow_to_body(t) ==
    Running(t, "vect_grow_to") /\ VectBody(t, vect_grow_to(vect, Ins(t)[2]), pushed)
vect_push_front_body(t) ==
    /\ Running(t, "vect_push_front")
    /\ VectBody(t, Vector_push_front(vect, Ins(t)[2]), vect_push_front(pushed, Ins(t)[2]))
vect_push_back_body(t) ==
    /\ Running(t, "vect_push_back")
    /\ VectBody(t, Vector_push_back(vect, Ins(t)[2]), Append(pushed, Ins(t)[2]))

StartVector(t) ==
    /\ vect.size < MaxVectSize
    /\ \/ Invoke(t, "vect_push_front", t, NULL, vect_push_front_steps(vect, t))
       \/ Invoke(t, "vect_push_back", t, NULL, vect_push_back_steps(vect, t))

NextVectorCalls ==
    \/ StartVector(1) \/ SyncStep(1)
    \/ vect_empty_body(1) \/ vect_at_body(1) \/ vect_grow_to_body(1)
    \/ vect_push_front_body(1) \/ vect_push_back_body(1)
SpecVectorCalls == Init /\ [][NextVectorCalls]_vars

\* SpecTable: mappings of the keys 1..MaxTableKey are put into one HashTable
\* and removed from it.
TablePut(key, value) ==
    /\ table.size < MaxTableSize
    /\ table' = table_put(table, key, value).table
    /\ UNCHANGED <<dictvars, syncvars, vect, pushed, iters>>

TableRemove(key) ==
    /\ table' = table_remove(table, key).table
    /\ UNCHANGED <<dictvars, syncvars, vect, pushed, iters>>

NextTable ==
    \/ \E key \in TableKeys, value \in TableValues : TablePut(key, value)
    \/ \E key \in TableKeys : TableRemove(key)
SpecTable == Init /\ [][NextTable]_vars

\* ============================================================ properties
\* the black nodes counted on every path from n down to a null leaf
RECURSIVE BlackCounts(_, _)
BlackCounts(h, n) ==
    IF n = NULL THEN {0}
    ELSE {c + (IF h[n].color = BLACK THEN 1 ELSE 0) :
            c \in BlackCounts(h, h[n].left) \cup BlackCounts(h, h[n].right)}

\* the keys held in the subtree of n
RECURSIVE SubtreeKeys(_, _)
SubtreeKeys(h, n) ==
    IF n = NULL THEN {}
    ELSE SubtreeKeys(h, h[n].left) \cup {h[n].key} \cup SubtreeKeys(h, h[n].right)

Occurrences(seq, x) == Cardinality({i \in 1..Len(seq) : seq[i] = x})

BlackBalanced(h) == \A n \in DOMAIN h : Cardinality(BlackCounts(h, n)) = 1
NoRedRed(h) ==
    \A n \in DOMAIN h :
        h[n].color = RED => Color(h, h[n].left) = BLACK /\ Color(h, h[n].right) = BLACK
RootBlack(h, r) == r = NULL \/ h[r].color = BLACK
Ordered(h) ==
    /\ \A n \in DOMAIN h :
        /\ \A k \in SubtreeKeys(h, h[n].left) : Compare(k, h[n].key) < 0
        /\ \A k \in SubtreeKeys(h, h[n].right) : Compare(k, h[n].key) > 0
    /\ \A m, n \in DOMAIN h : m # n => Compare(h[m].key, h[n].key) # 0

\* C1: after every completed dict_put or dict_remove, every path from any node
\* down to a null leaf passes through the same number of BLACK nodes.
C1_BlackHeight == BlackBalanced(nodes)

\* C1 witness: a removal whose double-black fixup applied Case Three twice (the
\* deficit moved up to a parent that is not the root) and left the tree balanced.
C1_Witness ==
    \E key \in DOMAIN abs :
        LET r == dict_remove(Now, key)
        IN  /\ Occurrences(r.log, "db3") >= 2
            /\ r.fault = "none"
            /\ BlackBalanced(r.h)

\* C2: after every completed dict_put or dict_remove no RED node has a RED
\* parent.
C2_NoRedRed == NoRedRed(nodes)

\* C2 witness: an insertion under a RED parent whose red-red fixup recoloured
\* (Case One), went on from the grandparent and rotated there, leaving no RED
\* node under a RED node.
C2_Witness ==
    \E key \in DeepKeys \ DOMAIN abs :
        LET r == dict_put(Now, key, DeepValue(key))
        IN  /\ Occurrences(r.log, "rr1") >= 1
            /\ Occurrences(r.log, "rr2") >= 1
            /\ r.fault = "none"
            /\ NoRedRed(r.h)

\* C3: after every completed dict_put or dict_remove the root is BLACK or the
\* map is empty.
C3_RootBlack == RootBlack(nodes, root)

\* C3 witness: the removal of a root with one child, whose RED child becomes
\* the root.
C3_Witness ==
    \E key \in DOMAIN abs :
        LET r == dict_remove(Now, key)
        IN  /\ nodes[root].key = key
            /\ size = 2
            /\ r.root # NULL
            /\ RootBlack(r.h, r.root)

\* C4: after every completed dict_put or dict_remove, for every node the keys of
\* its left subtree compare less than its key and the keys of its right subtree
\* compare greater, and no two nodes hold keys that compare equal.
C4_Ordered == Ordered(nodes)

\* C4 witness: the removal of a node with two children whose successor is not
\* its right child, after which the tree is ordered.
C4_Witness ==
    \E key \in DOMAIN abs :
        LET s == dict_binary_search(Now, key)
            r == dict_remove(Now, key)
        IN  /\ nodes[s.node].left # NULL
            /\ nodes[s.node].right # NULL
            /\ dict_successor(nodes, s.node) # nodes[s.node].right
            /\ r.fault = "none"
            /\ Ordered(r.h)

\* the value a lookup of key must give in a map that is m
Bound(m, key) == IF key \in DOMAIN m THEN m[key] ELSE NULL

\* the links and colour of every node, without its key and value
Shape(h) ==
    [a \in DOMAIN h |->
        [left |-> h[a].left, right |-> h[a].right, parent |-> h[a].parent,
         color |-> h[a].color]]

\* C5: after dict_put calls of distinct keys into an empty map, dict_get returns
\* for each inserted key the value put with it, dict_get returns none and
\* dict_contains false for every key never inserted, and dict_size is the number
\* of keys inserted.  Stated for every reachable state: the lookups agree with
\* the map the calls describe.
C5_RoundTrip ==
    /\ \A key \in Keys :
        /\ dict_get(Now, key) = Bound(abs, key)
        /\ dict_contains(Now, key) <=> key \in DOMAIN abs
    /\ dict_size(Now) = Cardinality(DOMAIN abs)

\* C5 witness: every key of Keys has been put, with values that differ, and every
\* lookup gives the value put.
C5_Witness ==
    /\ DOMAIN abs = Keys
    /\ \E j, k \in Keys : abs[j] # abs[k]
    /\ \A key \in Keys : dict_get(Now, key) = abs[key]
    /\ dict_size(Now) = MaxKey

\* C6: dict_remove of a present key removes exactly that mapping: afterwards the
\* key is not contained, the size is one less, and every other key is contained
\* exactly if it was, with the same value.
C6_RemoveExact ==
    \A key \in DOMAIN abs :
        LET r == dict_remove(Now, key)
        IN  /\ r.fault = "none"
            /\ ~dict_contains(r, key)
            /\ dict_size(r) = dict_size(Now) - 1
            /\ \A other \in DeepKeys \ {key} :
                /\ dict_contains(r, other) <=> dict_contains(Now, other)
                /\ dict_get(r, other) = dict_get(Now, other)

\* C6 witness: a removed key whose node has two children, another with one child
\* and another with none, each removal leaving all other mappings as they were.
C6_Witness ==
    /\ C6_RemoveExact
    /\ \A kids \in 0..2 :
        \E key \in DOMAIN abs :
            LET n == dict_binary_search(Now, key).node
            IN  (IF nodes[n].left # NULL THEN 1 ELSE 0)
                + (IF nodes[n].right # NULL THEN 1 ELSE 0) = kids

\* C7: dict_remove of a present key returns the value that was associated with
\* the key immediately before the call.
C7_RemoveReturnsValue ==
    \A key \in DOMAIN abs : dict_remove(Now, key).ret = dict_get(Now, key)

\* C8: dict_remove of a key that is not in the map returns none and leaves the
\* size, every node's key, value, links and colour, and the root unchanged.
C8_RemoveAbsent ==
    \A key \in DeepKeys :
        ~dict_contains(Now, key) =>
            LET r == dict_remove(Now, key)
            IN  /\ r.ret = NULL
                /\ r.h = nodes
                /\ r.root = root
                /\ r.size = size
                /\ r.fault = "none"

\* C8 witness: a missing key is removed from a map of at least three keys, one
\* smaller and one larger than it, and nothing changes.
C8_Witness ==
    \E key \in DeepKeys \ DOMAIN abs :
        /\ \E j, k \in DOMAIN abs : j < key /\ key < k
        /\ size >= 3
        /\ dict_remove(Now, key).h = nodes
        /\ dict_remove(Now, key).ret = NULL

\* C9: put(k,v1) followed by put(k,v2) leaves the size unchanged, the second put
\* returns v1, get(k) then returns v2, and the second put changes no node's links
\* or colour.
C9_Overwrite ==
    \A key \in Keys, v1 \in Values, v2 \in Values :
        LET d1 == dict_put(Now, key, v1)
            d2 == dict_put(d1, key, v2)
        IN  /\ dict_size(d2) = dict_size(d1)
            /\ d2.ret = v1
            /\ dict_get(d2, key) = v2
            /\ Shape(d2.h) = Shape(d1.h)
            /\ d2.root = d1.root

\* C9 witness: a key that is not at the root is put twice with different
\* values.
C9_Witness ==
    \E key \in DOMAIN abs, v2 \in Values :
        LET d2 == dict_put(Now, key, v2)
        IN  /\ nodes[root].key # key
            /\ abs[key] # v2
            /\ d2.ret = abs[key]
            /\ dict_get(d2, key) = v2
            /\ dict_size(d2) = size
            /\ Shape(d2.h) = Shape(nodes)

\* C10: after any sequence of dict_put, dict_remove and dict_clear, dict_size is
\* the number of nodes reachable from the root, which is the number of distinct
\* keys present, and dict_empty is true exactly when that number is 0.
C10_SizeCounts ==
    /\ dict_size(Now) = Cardinality(Range(InOrder(nodes, root)))
    /\ dict_size(Now) = Cardinality(SubtreeKeys(nodes, root))
    /\ dict_empty(Now) <=> Range(InOrder(nodes, root)) = {}

\* C10 witness: dict_clear of a map of at least three keys leaves no node and
\* size 0.
C10_Witness ==
    LET r == dict_clear(Now)
    IN  /\ size >= 3
        /\ size = Cardinality(Range(InOrder(nodes, root)))
        /\ dict_size(r) = 0
        /\ dict_empty(r)
        /\ r.root = NULL
        /\ DOMAIN r.h = {}


\* ---------------------------------------------------------------- traversals
\* the nodes of the subtree rooted at n, none for NULL
SubtreeNodes(h, n) == Range(InOrder(h, n))

\* the index at which x stands in seq
Position(seq, x) == CHOOSE i \in 1..Len(seq) : seq[i] = x

\* seq lists every node of the heap exactly once
EveryNodeOnce(h, seq) ==
    /\ Len(seq) = Cardinality(DOMAIN h)
    /\ Range(seq) = DOMAIN h

\* a tree with a node of two children, a node with a left child only and a
\* node with a right child only
MixedShape(h) ==
    /\ \E n \in DOMAIN h : h[n].left # NULL /\ h[n].right # NULL
    /\ \E n \in DOMAIN h : h[n].left # NULL /\ h[n].right = NULL
    /\ \E n \in DOMAIN h : h[n].left = NULL /\ h[n].right # NULL

\* C18: an IN_ORDER iterator over a map that is not modified meanwhile returns
\* every key of the map exactly once, each key greater than the key before it,
\* whatever shape the calls of dict_put and dict_remove gave the tree.
C18_InOrderSorted ==
    fault = "none" =>
        LET seq == dict_iter_all(Now, IN_ORDER)
        IN  /\ EveryNodeOnce(nodes, seq)
            /\ {nodes[seq[i]].key : i \in 1..Len(seq)} = DOMAIN abs
            /\ \A i \in 1..Len(seq) - 1 :
                   Compare(nodes[seq[i]].key, nodes[seq[i + 1]].key) < 0

C18_Witness ==
    /\ fault = "none"
    /\ size >= 7
    /\ MixedShape(nodes)
    /\ Len(dict_iter_all(Now, IN_ORDER)) = size

\* C19: a PRE_ORDER iterator returns every node exactly once, a node before
\* every node of its two subtrees, and every node of its left subtree before
\* any node of its right subtree.
C19_PreOrder ==
    fault = "none" =>
        LET seq == dict_iter_all(Now, PRE_ORDER)
        IN  /\ EveryNodeOnce(nodes, seq)
            /\ \A n \in DOMAIN nodes :
                   LET ls == SubtreeNodes(nodes, nodes[n].left)
                       rs == SubtreeNodes(nodes, nodes[n].right)
                   IN  /\ \A m \in ls \cup rs : Position(seq, n) < Position(seq, m)
                       /\ \A a \in ls : \A b \in rs : Position(seq, a) < Position(seq, b)

C19_Witness ==
    /\ fault = "none"
    /\ size >= 7
    /\ MixedShape(nodes)
    /\ LET seq == dict_iter_all(Now, PRE_ORDER)
       IN  Len(seq) = size /\ seq[1] = root

\* C20: a POST_ORDER iterator returns every node exactly once, a node after
\* every node of its two subtrees, and every node of its left subtree before
\* any node of its right subtree.
C20_PostOrder ==
    fault = "none" =>
        LET seq == dict_iter_all(Now, POST_ORDER)
        IN  /\ EveryNodeOnce(nodes, seq)
            /\ \A n \in DOMAIN nodes :
                   LET ls == SubtreeNodes(nodes, nodes[n].left)
                       rs == SubtreeNodes(nodes, nodes[n].right)
                   IN  /\ \A m \in ls \cup rs : Position(seq, m) < Position(seq, n)
                       /\ \A a \in ls : \A b \in rs : Position(seq, a) < Position(seq, b)

C20_Witness ==
    /\ fault = "none"
    /\ size >= 7
    /\ MixedShape(nodes)
    /\ LET seq == dict_iter_all(Now, POST_ORDER)
       IN  Len(seq) = size /\ seq[size] = root


\* ------------------------------------------------------------ the lock calls
IsMark(step) == step[1] \in {"call", "ret"}
\* the function of the ReadWriteSync the thread is executing, "none" outside
Inside(t) ==
    LET marks == SelectSeq(pc[t], IsMark)
    IN  IF marks # <<>> /\ Head(marks)[1] = "ret" THEN Head(marks)[2] ELSE "none"

\* the thread is between the return of sync_read_start and the call of the
\* sync_read_end that matches it; the same for sync_write_start
Reading(t) == held[t].read > 0
Writing(t) == held[t].write > 0

\* the wait the thread is at cannot return
Blocked(t) ==
    /\ pc[t] # <<>>
    /\ Ins(t)[1] \in {"mutex_wait", "sem_wait"}
    /\ ~Signaled(objects, rw[Ins(t)[2]], t)

\* C11: while a thread is between the return of sync_write_start and its
\* sync_write_end, no other thread is inside a read critical section or
\* inside another write critical section.
C11_WritersExclude ==
    \A t \in Threads : \A u \in Threads \ {t} :
        Writing(t) => ~Reading(u) /\ ~Writing(u)

\* C12: readers share the lock.  While no writer is registered and the other
\* threads are reading or in no call, a thread inside sync_read_start is at no
\* wait that cannot return: it completes the call beside the readers.
C12_ReadersShare ==
    \A t \in Threads :
        (/\ fault = "none"
         /\ Inside(t) = "sync_read_start"
         /\ rw.writers = 0
         /\ \A u \in Threads : ~Writing(u)
         /\ \A u \in Threads \ {t} : Inside(u) = "none")
        => ~Blocked(t)

\* a thread goes through sync_read_start while the other thread is reading,
\* and is reading beside it
C12_Witness ==
    /\ fault = "none"
    /\ \A t \in Threads : Reading(t) /\ Inside(t) = "none"

\* C13: a writer is not inside its critical section while a reader that was
\* reading when the writer called sync_write_start has not called
\* sync_read_end, and a reader is not inside its critical section while a
\* writer that was writing when the reader called sync_read_start has not
\* called sync_write_end.
C13_WriterFirst ==
    \A t \in Threads :
        /\ Writing(t) => ahead[t].readers = {}
        /\ Reading(t) => ahead[t].writers = {}

\* C14: under fair scheduling a thread that is inside sync_write_start gets
\* into its write critical section, whatever reads the other threads start.
C14_WriterGranted ==
    \A t \in Threads : (Inside(t) = "sync_write_start") ~> Writing(t)

\* C15: no thread calls sync_read_start or sync_write_start on the lock of the
\* map while it holds a read or a write acquisition of that lock; dict_clear
\* and dict_clone are among the callers.
C15_NoNestedStart ==
    \A t \in Threads :
        (pc[t] # <<>> /\ Ins(t)[1] = "call"
                      /\ Ins(t)[2] \in {"sync_read_start", "sync_write_start"})
        => ~Reading(t) /\ ~Writing(t)

\* C16: a thread that has returned from an operation of the map holds no
\* acquisition of its lock, and inside an operation every sync_read_start and
\* sync_write_start that was called has exactly one sync_read_end or
\* sync_write_end that was called since or is still to be called.
PendingMark(t, mark, function) ==
    Cardinality({i \in 1..Len(pc[t]) : pc[t][i] = <<mark, function>>})

C16_Released ==
    \A t \in Threads :
        /\ pc[t] = <<>> => held[t] = [read |-> 0, write |-> 0]
        /\ PendingMark(t, "call", "sync_read_end")
              = held[t].read + PendingMark(t, "ret", "sync_read_start")
        /\ PendingMark(t, "call", "sync_write_end")
              = held[t].write + PendingMark(t, "ret", "sync_write_start")

\* a dict_get that found no mapping is about to return, its acquisition released
C16_Witness ==
    /\ pc[1] = << <<"ret", "sync_read_end">> >>
    /\ returned[1] = <<"dict_get", NULL>>
    /\ held[1] = [read |-> 0, write |-> 0]

\* C17: a dict_get of a key that starts after a dict_put of the key has
\* returned, with no other write of the key beside or after that dict_put
\* until the dict_get has read, reads the value that was put.
C17_ReadSeesWrite ==
    \A t \in Threads :
        (op[t].name = "dict_get" /\ returned[t] # <<>> /\ op[t].expect # Unknown)
        => returned[t] = <<"dict_get", op[t].expect>>


\* ------------------------------------------------- iterators run to their end
Traversals == {IN_ORDER, PRE_ORDER, POST_ORDER}

\* dict_iter_has_next holds before each of `calls` calls of dict_iter_next,
\* each of which returns a node within `turns` turns of its loop, and it does
\* not hold after the last of them
RECURSIVE Exhausts(_, _, _, _, _)
Exhausts(h, iter, traverse_type, calls, turns) ==
    IF calls = 0 THEN ~dict_iter_has_next(iter)
    ELSE /\ dict_iter_has_next(iter)
         /\ LET step == dict_iter_next_within(h, iter, traverse_type, turns)
            IN  /\ step.node # NULL
                /\ Exhausts(h, step.iter, traverse_type, calls - 1, turns)

\* C21: for each traversal order, on a map of n entries that is not modified,
\* dict_iter_has_next is true before each of the first n calls of
\* dict_iter_next, each call returns (within n + 1 turns of its loop), and
\* dict_iter_has_next is false after the n-th call; on an empty map it is false
\* from the creation of the iterator.
C21_IteratorEnds ==
    fault = "none" =>
        \A traverse_type \in Traversals :
            Exhausts(nodes, dict_iter(Now, traverse_type), traverse_type, size, size + 1)

\* C21 witness: a map of seven or more entries whose IN_ORDER and POST_ORDER
\* iterators need three or more turns of their loop for the first call, and
\* whose iterators end after as many calls as it has entries.
C21_Witness ==
    /\ fault = "none"
    /\ size >= 7
    /\ MixedShape(nodes)
    /\ dict_iter_next_within(nodes, dict_iter(Now, IN_ORDER), IN_ORDER, 2).node = NULL
    /\ dict_iter_next_within(nodes, dict_iter(Now, POST_ORDER), POST_ORDER, 2).node = NULL
    /\ \A traverse_type \in Traversals :
           Exhausts(nodes, dict_iter(Now, traverse_type), traverse_type, size, size + 1)

\* --------------------------------------------------------------------- clone
\* the (key, value) pairs of the map rooted at r, in order
PairsInOrder(h, r) ==
    LET order == InOrder(h, r)
    IN  [i \in 1..Len(order) |-> <<h[order[i]].key, h[order[i]].value>>]

\* C22: dict_clone returns a map whose in-order sequence of (key, value) pairs
\* and whose size are those of the source at the time of the call.
C22_CloneEqual ==
    fault = "none" =>
        LET copy == dict_clone(Now)
        IN  /\ copy.fault = "none"
            /\ PairsInOrder(copy.h, copy.root) = PairsInOrder(nodes, root)
            /\ dict_size(copy) = dict_size(Now)
            /\ \A key \in Keys : dict_get(copy, key) = dict_get(Now, key)

\* C22 witness: the clone of a map of five or more entries that hold different
\* values has the pairs of the map.
C22_Witness ==
    /\ fault = "none"
    /\ size >= 5
    /\ \E j, k \in DOMAIN abs : abs[j] # abs[k]
    /\ \E k \in DOMAIN abs : abs[k] # k
    /\ LET copy == dict_clone(Now)
       IN  /\ PairsInOrder(copy.h, copy.root) = PairsInOrder(nodes, root)
           /\ dict_size(copy) = size

\* the nodes of `kept` are in the heap h2 what they are in the heap h1
Untouched(h1, h2, kept) == \A a \in kept : a \in DOMAIN h2 /\ h2[a] = h1[a]

\* the maps a dict_put, a dict_remove or a dict_clear makes of the map d
Mutated(d) ==
    {dict_put(d, key, value) : key \in Keys, value \in Values}
        \cup {dict_remove(d, key) : key \in Keys} \cup {dict_clear(d)}

\* C23: after dict_clone the source and the copy share no node, and a
\* dict_put, dict_remove or dict_clear on one of the two maps leaves every
\* node of the other map, with its key, value, links and colour, as it was.
C23_CloneSeparate ==
    fault = "none" =>
        LET copy == dict_clone(Now)
            source == Dict(copy.h, root, size)
            source_nodes == SubtreeNodes(copy.h, root)
            copy_nodes == SubtreeNodes(copy.h, copy.root)
        IN  /\ source_nodes \cap copy_nodes = {}
            /\ source_nodes = DOMAIN nodes
            /\ Untouched(nodes, copy.h, source_nodes)
            /\ \A after \in Mutated(copy) :
                   after.fault = "none" /\ Untouched(copy.h, after.h, source_nodes)
            /\ \A after \in Mutated(source) :
                   after.fault = "none" /\ Untouched(copy.h, after.h, copy_nodes)

\* C23 witness: the clone of a map of five or more entries shares no node with
\* it, and the removal from the clone of a key whose node has two children
\* leaves the nodes of the source as they were.
C23_Witness ==
    /\ fault = "none"
    /\ size >= 5
    /\ LET copy == dict_clone(Now)
       IN  /\ SubtreeNodes(copy.h, root) \cap SubtreeNodes(copy.h, copy.root) = {}
           /\ Cardinality(SubtreeNodes(copy.h, copy.root)) = size
           /\ \E key \in DOMAIN abs :
                LET n == dict_binary_search(copy, key).node
                    after == dict_remove(copy, key)
                IN  /\ copy.h[n].left # NULL /\ copy.h[n].right # NULL
                    /\ after.size = size - 1
                    /\ Untouched(nodes, after.h, DOMAIN nodes)

\* C24: when dict_clear returns the map has no root and size 0, dict_get finds
\* no key, every node that was in the map has been destroyed, once, and no
\* node was read after it was destroyed.
C24_ClearDestroysAll ==
    fault = "none" =>
        LET cleared == dict_clear(Now)
        IN  /\ cleared.fault = "none"
            /\ cleared.root = NULL
            /\ cleared.size = 0
            /\ DOMAIN cleared.h = {}
            /\ \A key \in DeepKeys :
                   dict_get(cleared, key) = NULL /\ ~dict_contains(cleared, key)

\* C24 witness: dict_clear of a map of seven or more entries, with nodes of one
\* child on either side and nodes of two, destroys every node.
C24_Witness ==
    /\ fault = "none"
    /\ size >= 7
    /\ MixedShape(nodes)
    /\ dict_clear(Now).fault = "none"
    /\ DOMAIN dict_clear(Now).h = {}
    /\ dict_clear(Now).root = NULL

\* -------------------------------------------------------------------- fixups
Rotations(log) ==
    Cardinality({i \in 1..Len(log) : log[i] \in {"rr2", "rr3", "db2", "db5", "db6"}})

\* C27: every dict_put and every dict_remove on the tree returns, without a
\* failed assertion, after as many fixup cases as the tree has nodes at most;
\* dict_red_red rotates at most 2 times in an insertion and dict_double_black
\* at most 3 times in a removal.
C27_RotationsBounded ==
    fault = "none" =>
        /\ \A key \in DeepKeys :
              LET r == dict_put(Now, key, DeepValue(key))
              IN  r.fault = "none" /\ Rotations(r.log) <= 2 /\ Len(r.log) <= size + 1
        /\ \A key \in DeepKeys :
              LET r == dict_remove(Now, key)
              IN  r.fault = "none" /\ Rotations(r.log) <= 3 /\ Len(r.log) <= size + 1

\* C27 witness: a removal whose fixup rotates three times (Cases Two, Five and
\* Six) and, in the same tree, an insertion whose fixup rotates twice.
C27_Witness ==
    /\ fault = "none"
    /\ \E key \in DOMAIN abs : Rotations(dict_remove(Now, key).log) = 3
    /\ \E key \in DeepKeys \ DOMAIN abs :
           Rotations(dict_put(Now, key, DeepValue(key)).log) = 2

\* the calls of dict_double_black in a trace
IsFixup(call) == call.function = "dict_double_black"
\* none of Cases Two to Five matches what the call found
CaseSix(call) ==
    /\ ~(call.color_nc = BLACK /\ call.color_nf = BLACK
            /\ ~(call.color_par = RED /\ call.color_sib = RED))
    /\ ~(call.color_nc = RED /\ call.color_nf = BLACK)

\* C28: every call of dict_double_black, from dict_remove or from itself, is
\* given a node that is not the root and has a sibling, and when none of Cases
\* Two to Five matches the far nephew exists and is RED and the sibling is
\* BLACK: no assertion fails and no null pointer is read.
C28_FixupPreconditions ==
    fault = "none" =>
        \A key \in DOMAIN abs :
            LET r == dict_remove(Now, key)
            IN  /\ r.fault = "none"
                /\ \A i \in 1..Len(r.trace) :
                      IsFixup(r.trace[i]) =>
                          /\ r.trace[i].sibling # NULL
                          /\ CaseSix(r.trace[i]) =>
                                /\ r.trace[i].nephew_far # NULL
                                /\ r.trace[i].color_nf = RED
                                /\ r.trace[i].color_sib = BLACK

\* C28 witness: a removal whose fixup calls itself from Case Three and then
\* ends in Case Six.
C28_Witness ==
    /\ fault = "none"
    /\ \E key \in DOMAIN abs :
          LET r == dict_remove(Now, key)
          IN  /\ r.fault = "none"
              /\ Occurrences(r.log, "db3") >= 1
              /\ Occurrences(r.log, "db6") = 1
              /\ \E i \in 1..Len(r.trace) : IsFixup(r.trace[i]) /\ CaseSix(r.trace[i])

\* C29: whenever dict_double_black applies Case Five, the call of itself that
\* follows is on the same node, applies Case Six, and is the last of the fixup.
C29_CaseFiveThenSix ==
    fault = "none" =>
        \A key \in DOMAIN abs :
            LET r == dict_remove(Now, key)
            IN  \A i \in 1..Len(r.log) :
                   r.log[i] = "db5" =>
                       /\ i + 1 = Len(r.log)
                       /\ r.log[i + 1] = "db6"
                       /\ IsFixup(r.trace[i]) /\ IsFixup(r.trace[i + 1])
                       /\ r.trace[i + 1].node = r.trace[i].node

\* C29 witness: a removal whose fixup applies Case Five.
C29_Witness ==
    /\ fault = "none"
    /\ \E key \in DOMAIN abs :
          LET r == dict_remove(Now, key)
          IN  /\ r.fault = "none"
              /\ Len(r.log) >= 2
              /\ r.log[Len(r.log) - 1] = "db5"
              /\ r.log[Len(r.log)] = "db6"

\* C30: in dict_remove every call of dict_double_black has returned when
\* dict_delete is called, and the node dict_delete is given is then linked in
\* the tree and has one child at most: its assertion does not fail.
C30_DeleteAfterFixup ==
    fault = "none" =>
        \A key \in DOMAIN abs :
            LET r == dict_remove(Now, key)
                last == Len(r.trace)
            IN  /\ r.fault = "none"
                /\ last >= 1
                /\ r.trace[last].function = "dict_delete"
                /\ r.trace[last].linked
                /\ \A i \in 1..(last - 1) : IsFixup(r.trace[i])
                /\ last = Len(r.log) + 1

\* C30 witness: the removal of a key whose node has two children, with a
\* fixup of two or more calls before the successor is deleted.
C30_Witness ==
    /\ fault = "none"
    /\ \E key \in DOMAIN abs :
          LET n == dict_binary_search(Now, key).node
              r == dict_remove(Now, key)
          IN  /\ nodes[n].left # NULL /\ nodes[n].right # NULL
              /\ r.fault = "none"
              /\ Len(r.trace) >= 3
              /\ r.trace[Len(r.trace)].function = "dict_delete"
              /\ r.trace[Len(r.trace)].linked


\* ------------------------------------------------------------ null arguments
\* the step is the call of an operation with no key or, for dict_put, no value
NullCall(t) ==
    \/ Invoke(t, "dict_get", NULL, NULL, dict_get_steps(NULL))
    \/ Invoke(t, "dict_contains", NULL, NULL, dict_contains_steps(NULL))
    \/ Invoke(t, "dict_remove", NULL, NULL, dict_remove_steps(NULL))
    \/ \E key \in ArgKeys, value \in ArgValues :
          /\ key = NULL \/ value = NULL
          /\ Invoke(t, "dict_put", key, value, dict_put_steps(key, value))

\* C25: a call of dict_put with a null key or a null value, or of dict_get,
\* dict_contains or dict_remove with a null key, ends in a failed assertion
\* with the lock of the map not called, its counters and objects as they were,
\* and the nodes, the root and the size of the map as they were.
C25_NullRejected ==
    [][\A t \in Threads :
          NullCall(t) =>
              /\ fault' = "io_assert: null pointer"
              /\ pc'[t] = <<>>
              /\ UNCHANGED <<nodes, root, size, rw, objects, held>>]_vars

\* C25 witness: a call without a key or without a value was stopped by its
\* assertion on a map that holds an entry, outside every call of the lock.
C25_Witness ==
    /\ fault = "io_assert: null pointer"
    /\ size >= 1
    /\ pc[1] = <<>>
    /\ held[1] = [read |-> 0, write |-> 0]
    /\ rw.readers = 0 /\ rw.writers = 0

\* ------------------------------------------------------- end without a start
\* The thread is inside a sync_read_end or sync_write_end that no start on the
\* lock matches: more ends than starts have been called.
Unmatched(t) ==
    \/ Inside(t) = "sync_read_end" /\ Sum([u \in Threads |-> held[u].read], Threads) < 0
    \/ Inside(t) = "sync_write_end" /\ Sum([u \in Threads |-> held[u].write], Threads) < 0

\* the steps the thread has to take before its next io_assert, all of its
\* steps without one
RECURSIVE BeforeAssert(_)
BeforeAssert(steps) ==
    IF steps = <<>> \/ Head(steps)[1] = "io_assert" THEN <<>>
    ELSE <<Head(steps)>> \o BeforeAssert(Tail(steps))

\* C26: a sync_read_end or sync_write_end with no start before it on the lock
\* comes to its counting assertion, which fails, before it has called
\* sem_signal on a semaphore of the lock or stored a counter: between its
\* entry and the assertion it only waits for the mutex of the counter.
C26_EndReported ==
    \A t \in Threads :
        (fault = "none" /\ Unmatched(t)) =>
            /\ \E i \in 1..Len(pc[t]) : pc[t][i][1] = "io_assert" /\ rw[pc[t][i][2]] = 0
            /\ \A i \in 1..Len(BeforeAssert(pc[t])) : pc[t][i][1] = "mutex_wait"


\* ------------------------------------------------------------- parent links
\* the root has no parent, and every node is the parent of its children
ParentLinks(h, r) ==
    /\ r # NULL => h[r].parent = NULL
    /\ \A n \in DOMAIN h :
        /\ h[n].left # NULL => h[n].left \in DOMAIN h /\ h[h[n].left].parent = n
        /\ h[n].right # NULL => h[n].right \in DOMAIN h /\ h[h[n].right].parent = n

\* C31: after every completed dict_put or dict_remove the parent links agree
\* with the child links: the root has no parent, and every node that is the
\* left or the right child of a node has that node as its parent.
C31_ParentLinks == ParentLinks(nodes, root)

\* C31 witness: a removal whose fixup rotates at the root, so that the tree
\* has another root afterwards, with the links in agreement.
C31_Witness ==
    \E key \in DOMAIN abs :
        LET r == dict_remove(Now, key)
        IN  /\ r.fault = "none"
            /\ Rotations(r.log) >= 1
            /\ r.root # root /\ r.root # NULL
            /\ nodes[root].key # key
            /\ ParentLinks(r.h, r.root)

\* ------------------------------------------------------------------- search
\* no key of the map lies between the two keys
Adjacent(m, a, b) == ~\E k \in DOMAIN m : (a < k /\ k < b) \/ (b < k /\ k < a)

\* C32: dict_binary_search returns no node exactly when the map is empty;
\* for a key of the map it returns the node of the key with compared = 0; for
\* another key it returns the node under which the key belongs, with
\* compared < 0 and no left child there, or compared > 0 and no right child.
C32_SearchResult ==
    fault = "none" =>
        \A key \in Keys :
            LET s == dict_binary_search(Now, key)
            IN  /\ s.node = NULL <=> dict_empty(Now)
                /\ s.node # NULL =>
                      /\ s.node \in DOMAIN nodes
                      /\ key \in DOMAIN abs => s.compared = 0 /\ nodes[s.node].key = key
                      /\ key \notin DOMAIN abs =>
                            /\ s.compared # 0
                            /\ s.compared = Compare(key, nodes[s.node].key)
                            /\ s.compared < 0 => nodes[s.node].left = NULL
                            /\ s.compared > 0 => nodes[s.node].right = NULL
                            /\ Adjacent(abs, key, nodes[s.node].key)

\* C32 witness: in a map of three or more keys one missing key belongs to the
\* left of a node below the root and another to the right of such a node.
C32_Witness ==
    /\ fault = "none"
    /\ size >= 3
    /\ \E key \in Keys \ DOMAIN abs :
          LET s == dict_binary_search(Now, key)
          IN  s.compared < 0 /\ nodes[s.node].parent # NULL
    /\ \E key \in Keys \ DOMAIN abs :
          LET s == dict_binary_search(Now, key)
          IN  s.compared > 0 /\ nodes[s.node].parent # NULL

\* ------------------------------------------------------------ clone, shape
\* the trees below a in h1 and below b in h2 have the same keys in the same
\* places, with the same colours
RECURSIVE SameTree(_, _, _, _)
SameTree(h1, a, h2, b) ==
    IF a = NULL \/ b = NULL THEN a = b
    ELSE /\ h1[a].key = h2[b].key
         /\ h1[a].color = h2[b].color
         /\ SameTree(h1, h1[a].left, h2, h2[b].left)
         /\ SameTree(h1, h1[a].right, h2, h2[b].right)

\* C33: the tree dict_clone builds has the shape and the node colours of the
\* tree of the source.
C33_CloneSameShape ==
    fault = "none" =>
        LET copy == dict_clone(Now)
        IN  SameTree(nodes, root, copy.h, copy.root)

\* --------------------------------------------------------- calls that return
\* the thread is in a call whose body is the step named
InCall(t, body) ==
    /\ pc[t] # <<>>
    /\ \/ \E i \in 1..Len(pc[t]) : pc[t][i][1] = body
       \/ returned[t] # <<>> /\ returned[t][1] = body

\* C34: under fair scheduling a dict_clear called by a thread that holds no
\* acquisition of the lock of the map returns.
C34_ClearReturns ==
    \A t \in Threads : (InCall(t, "dict_clear") /\ held[t].read + held[t].write = 0)
                           ~> (pc[t] = <<>>)

\* C35: under fair scheduling a dict_clone returns, whatever dict_put and
\* dict_remove another thread calls in the meantime.
C35_CloneReturns ==
    \A t \in Threads : InCall(t, "dict_clone_loop") ~> (pc[t] = <<>>)

\* C36: under fair scheduling every call of dict_get, dict_contains,
\* dict_size, dict_empty, dict_put and dict_remove that threads make at the
\* same time returns, and at no time is every thread that is in a call at a
\* wait that cannot return.
C36_CallsReturn ==
    /\ [](\A t \in Threads : pc[t] # <<>> => \E u \in Threads : pc[u] # <<>> /\ ~Blocked(u))
    /\ \A t \in Threads : (pc[t] # <<>>) ~> (pc[t] = <<>>)

\* ------------------------------------------------------------- constructor
\* C37: when ReadWriteSync_new has returned, each of the three mutex fields
\* and of the two semaphore fields of the structure holds the handle of an
\* object of its own, a mutex or a semaphore of count 1, so that the waits of
\* sync_read_start and sync_write_start are waits for those objects.
C37_HandlesStored ==
    /\ \A field \in {"readers_mutex", "writers_mutex", "reader_bottleneck_mutex"} :
           rw[field] \in DOMAIN objects /\ objects[rw[field]].kind = "mutex"
    /\ \A field \in {"reader_block_sem", "writer_block_sem"} :
           /\ rw[field] \in DOMAIN objects
           /\ objects[rw[field]].kind = "semaphore"
           /\ objects[rw[field]].count <= SYNC_SEMAPHORE_MAX
    /\ Cardinality({rw[field] : field \in {"readers_mutex", "writers_mutex",
                       "reader_bottleneck_mutex", "reader_block_sem",
                       "writer_block_sem"}}) = 5

\* ------------------------------------------------------------------- Vector
\* the elements of the Vector from its front on
Contents(v) == [i \in 1..v.size |-> vect_at(v, i - 1)]

\* C38: vect_push_front, vect_pop_front, vect_front and vect_empty are a
\* stack: the Vector holds the elements pushed and not popped, the last one
\* pushed at its front, also when start has gone around the table and when
\* the table has grown; only vect_pop_front of an empty Vector is refused.
C38_VectorStack ==
    /\ vect.fault # "none" => pushed = <<>>
    /\ vect.fault = "none" =>
          /\ Contents(vect) = pushed
          /\ Vector_empty(vect) <=> vect_empty(pushed)
          /\ ~vect_empty(pushed) => Vector_front(vect) = vect_front(pushed)

\* C38 witness: the table has grown past its initial capacity and the
\* elements, more than that capacity, lie around its end.
C38_Witness ==
    /\ vect.fault = "none"
    /\ vect.capacity > VECT_DEFAULT_INITIAL_CAPACITY
    /\ vect.size > VECT_DEFAULT_INITIAL_CAPACITY
    /\ vect.start + vect.size > vect.capacity
    /\ Contents(vect) = pushed

\* C39: no operation of the Vector calls sync_read_start or sync_write_start
\* on the lock of the Vector while its thread holds an acquisition of that
\* lock; vect_push_front and vect_push_back, called by a thread that holds
\* none, are among them.
C39_NoNestedVectorStart ==
    \A t \in Threads :
        (pc[t] # <<>> /\ Ins(t) \in {<<"call", "sync_read_start">>,
                                     <<"call", "sync_write_start">>})
        => held[t].read = 0 /\ held[t].write = 0

\* ---------------------------------------------------------------- HashTable
\* C40: table_remove of a key the table contains removes that mapping and no
\* other: it returns true, the size is one less, the key is no longer
\* contained and table_get returns for every other key what it returned.
C40_TableRemoveExact ==
    \A key \in TableKeys :
        table_contains(table, key) =>
            LET r == table_remove(table, key)
            IN  /\ r.ret
                /\ r.table.size = table.size - 1
                /\ ~table_contains(r.table, key)
                /\ \A other \in TableKeys \ {key} :
                       table_get(r.table, other) = table_get(table, other)

====
